---- MODULE Spec2Model ----
(***************************************************************************)
(* Verification model of the make-audiobook GUI core:                      *)
(*   - ConversionWorker / ConversionJob driven by the MainWindow           *)
(*     (gui/workers/conversion_worker.py, gui/views/main_window.py),       *)
(*   - DownloadWorker (gui/workers/download_worker.py) with                *)
(*     VoiceCatalog.update_installed_status (gui/models/voice.py),         *)
(*   - CatalogWorker (gui/workers/catalog_worker.py),                      *)
(*   - SettingsPanel, the converter's command line and its output          *)
(*     (gui/views/settings_panel.py, gui/workers/conversion_worker.py),    *)
(*   - the catalog and download handlers of the MainWindow,                *)
(*   - the configuration file and the speed preference                     *)
(*     (gui/utils/config.py, gui/views/main_window.py).                    *)
(* Each component has its own specification over the shared variables.    *)
(***************************************************************************)
EXTENDS Integers, Sequences, FiniteSets, TLC

(***************************************************************************)
(* Bounds of the conversion model.                                         *)
(***************************************************************************)
MaxJobs == 1
MaxFiles == 2
MaxExitCode == 2

Workers == 1..MaxJobs
ExitCodes == 0..MaxExitCode

VARIABLES
    \* ---- conversion: MainWindow, ConversionWorker, ConversionJob
    fileCount,          \* FileListWidget.file_count()
    convertEnabled,     \* MainWindow._convert_button.isEnabled()
    cancelEnabled,      \* ProgressPanel._cancel_button.isEnabled()
    panelStatus,        \* ProgressPanel._status_label text
    overallProgress,    \* ProgressPanel._overall_progress value
    conversion_worker,  \* MainWindow._conversion_worker (0 = None)
    conversion_thread,  \* MainWindow._conversion_thread (0 = None)
    nWorkers,           \* number of ConversionWorker objects constructed
    job,                \* worker -> its ConversionJob
    worker,             \* worker -> ConversionWorker / QProcess / QThread state
    finishedEmitted,    \* worker -> sequence of finished(filename, success) emissions
    uiQueue,            \* finished notifications queued to the UI thread
    uiShown,            \* worker -> outcomes the MainWindow showed for it
    \* ---- download: DownloadWorker, the voices directory, Voice.installed
    voice,              \* DownloadWorker._voice: [files, size_bytes]
    disk,               \* path -> file under {voices_dir}/{language}/{key}/
    disk0,              \* the directory as it was when the worker was constructed
    dlpc,               \* position of DownloadWorker.run
    fileIdx,            \* position of the loop over voice.files.items()
    downloaded,         \* local `downloaded` of run / _download_file
    dlCancelled,        \* DownloadWorker._cancelled
    remaining,          \* bytes of the open response not yet yielded by iter_content
    sent,               \* ext -> [requested, body]: response body of this run's request
    signals,            \* progress / finished / error emissions, in order
    checked,            \* ext -> result of _verify_checksum in this run
    cancelSeen,         \* where run / _download_file read _cancelled as set
    installed,          \* Voice.installed of the catalog record of this voice
    reconciledAt,       \* dlpc at the last update_installed_status ("never" if none)
    \* ---- catalog: CatalogWorker and its cache file
    cacheFile,          \* {cache_dir}/voices_catalog.json: [exists, age, content]
    cache0,             \* the cache file as it was when the current run began
    force_refresh,      \* CatalogWorker._force_refresh of the current worker
    catpc,              \* position of CatalogWorker.run
    netCalls,           \* requests.get calls made by the current run
    catSignals,         \* catalogReady / error emissions of the current run
    catRuns,            \* number of CatalogWorker runs started
    response,           \* outcome of the current run's requests.get / response.json()
    \* ---- voice catalog: VoiceCatalog built by from_dict, and the voices directory
    document,           \* the document given to VoiceCatalog.from_dict
    voiceCatalog,       \* the VoiceCatalog: [state, voices], state "none" before the call
    voices_dir,         \* paths under the voices directory at which a file exists
    query,              \* the last call on the catalog: its arguments and its result
    \* ---- command: SettingsPanel, file list, the job built from them, the launch
    settings,           \* SettingsPanel: [random_checkbox, random_filter, voice_selector, speed_slider]
    file_list,          \* FileListModel._files
    cjob,               \* the ConversionJob handed to the worker (NoJob before)
    launch,             \* what QProcess.start was given: [program, arguments, environment, stdin]
    \* ---- output: the QProcess of a ConversionWorker and what it wrote
    qprocess,           \* ConversionWorker._process: [state, terminate, finished]
    current_file,       \* ConversionWorker._current_file
    current_file_progress, \* ConversionWorker._current_file_progress
    pipe,               \* output written by the process and not yet read
    written,            \* everything the process has written
    log,                \* log emissions, in order
    lastLine,           \* the line of the latest _parse_progress_output call
    emitted,            \* progress emissions of the latest _parse_progress_output call
    lastOverall,        \* the latest overall-progress value emitted
    fault,              \* the exception the latest _parse_progress_output call raised
    \* ---- window: catalog and download handlers of the MainWindow
    ui,                 \* the slot the UI thread is executing
    workerRuns,         \* the worker runs entered so far, with their threads
    requested,          \* the voices of the current download request
    reqIdx,             \* position of the loop of _on_download_voices
    notified,           \* _on_voice_downloaded calls of the current request
    shown,              \* the latest status message or dialog of these handlers
    \* ---- install: DownloadWorker runs sharing the voices directory
    installs,           \* run -> [voice, pc, fileIdx, cancelled, touched, finished]
    tree,               \* the paths that exist below the voices directory
    \* ---- configuration: the configuration file and MainWindow._config
    configFile,         \* the file at CONFIG_FILE: [exists, json, content]
    config,             \* MainWindow._config: [speed, length_scale]
    session,            \* "open" while the MainWindow exists, else "closed"
    closedSpeed         \* get_speed() at the latest closeEvent whose file is still in place

convVars == <<fileCount, convertEnabled, cancelEnabled, panelStatus, overallProgress,
              conversion_worker, conversion_thread, nWorkers, job, worker,
              finishedEmitted, uiQueue, uiShown>>

dlVars == <<voice, disk, disk0, dlpc, fileIdx, downloaded, dlCancelled, remaining,
            sent, signals, checked, cancelSeen, installed, reconciledAt>>

catVars == <<cacheFile, cache0, force_refresh, catpc, netCalls, catSignals, catRuns,
            response>>

vcVars == <<document, voiceCatalog, voices_dir, query>>

coreVars == <<convVars, dlVars, catVars, vcVars>>

cmdVars == <<settings, file_list, cjob, launch>>

parseVars == <<current_file, current_file_progress, pipe, written, log, lastLine,
               emitted, lastOverall, fault>>

outVars == <<qprocess, parseVars>>

winVars == <<ui, workerRuns, requested, reqIdx, notified, shown>>

instVars == <<installs, tree>>

cfgVars == <<configFile, config, session, closedSpeed>>

guiVars == <<cmdVars, outVars, winVars, instVars, cfgVars>>

vars == <<coreVars, guiVars>>

(***************************************************************************)
(* ConversionJob (gui/models/conversion_job.py)                            *)
(***************************************************************************)
JobStatus == {"pending", "in_progress", "completed", "failed", "cancelled"}

TerminalStatus == {"completed", "failed", "cancelled"}

NoMessage == <<>>

\* a ConversionJob as constructed by the dataclass defaults, with n input files
ConversionJob(n) ==
    [files |-> n, status |-> "pending", current_file_index |-> -1,
     error_message |-> NoMessage]

\* f"Process exited with code {exit_code}"
ExitMessage(exit_code) == <<"Process exited with code", exit_code>>

(***************************************************************************)
(* ConversionWorker (gui/workers/conversion_worker.py)                     *)
(*   process: "none" (self._process is None), "starting", "running",       *)
(*            "exited", "failed_to_start" (QProcess states)                *)
(*   current_file: 0 = None, else 1-based index into job.files             *)
(***************************************************************************)
ConversionWorker ==
    [process |-> "none", current_file |-> 0, threadRunning |-> FALSE,
     exitCode |-> -1, cancelCalled |-> FALSE, cancelledRunning |-> FALSE]

\* success = exit_code == 0
SuccessMutNonNegative(exit_code) == exit_code >= 0
Success(exit_code) == exit_code = 0

ConvInit ==
    /\ fileCount = 0
    /\ convertEnabled = FALSE
    /\ cancelEnabled = FALSE
    /\ panelStatus = "Ready"
    /\ overallProgress = 0
    /\ conversion_worker = 0
    /\ conversion_thread = 0
    /\ nWorkers = 0
    /\ job = [w \in Workers |-> ConversionJob(0)]
    /\ worker = [w \in Workers |-> ConversionWorker]
    /\ finishedEmitted = [w \in Workers |-> <<>>]
    /\ uiQueue = <<>>
    /\ uiShown = [w \in Workers |-> <<>>]

\* FileListWidget add/remove/clear emits filesChanged -> MainWindow._on_files_changed
OnFilesChanged ==
    /\ \E n \in 0..MaxFiles :
          /\ n # fileCount
          /\ fileCount' = n
          /\ convertEnabled' = (n > 0)
    /\ UNCHANGED <<cancelEnabled, panelStatus, overallProgress, conversion_worker,
                   conversion_thread, nWorkers, job, worker, finishedEmitted,
                   uiQueue, uiShown>>

\* MainWindow._on_convert_clicked + _start_conversion
OnConvertClicked ==
    /\ convertEnabled
    /\ fileCount > 0
    /\ nWorkers < MaxJobs
    /\ LET w == nWorkers + 1 IN
          /\ nWorkers' = w
          /\ job' = [job EXCEPT ![w] = ConversionJob(fileCount)]
          /\ worker' = [worker EXCEPT ![w].threadRunning = TRUE]
          /\ conversion_worker' = w
          /\ conversion_thread' = w
    /\ panelStatus' = "Converting..."
    /\ overallProgress' = 0
    /\ cancelEnabled' = TRUE
    /\ convertEnabled' = FALSE
    /\ UNCHANGED <<fileCount, finishedEmitted, uiQueue, uiShown>>

\* QThread.started -> ConversionWorker.start: the QProcess is created and launched
WorkerStart(w) ==
    /\ w <= nWorkers
    /\ worker[w].threadRunning
    /\ worker[w].process = "none"
    /\ worker' = [worker EXCEPT ![w].process = "starting"]
    /\ UNCHANGED <<fileCount, convertEnabled, cancelEnabled, panelStatus,
                   overallProgress, conversion_worker, conversion_thread, nWorkers,
                   job, finishedEmitted, uiQueue, uiShown>>

\* the executable cannot be launched: QProcess emits neither started nor finished
ProcessFailedToStart(w) ==
    /\ w <= nWorkers
    /\ worker[w].process = "starting"
    /\ worker' = [worker EXCEPT ![w].process = "failed_to_start"]
    /\ UNCHANGED <<fileCount, convertEnabled, cancelEnabled, panelStatus,
                   overallProgress, conversion_worker, conversion_thread, nWorkers,
                   job, finishedEmitted, uiQueue, uiShown>>

\* QProcess.started -> ConversionWorker._on_process_started
OnProcessStarted(w) ==
    /\ w <= nWorkers
    /\ worker[w].threadRunning
    /\ worker[w].process = "starting"
    /\ job' = [job EXCEPT ![w].status = "in_progress",
                          ![w].current_file_index =
                              IF job[w].files > 0 THEN 0 ELSE @]
    /\ worker' = [worker EXCEPT ![w].process = "running",
                                ![w].current_file =
                                    IF job[w].files > 0 THEN 1 ELSE @]
    /\ UNCHANGED <<fileCount, convertEnabled, cancelEnabled, panelStatus,
                   overallProgress, conversion_worker, conversion_thread, nWorkers,
                   finishedEmitted, uiQueue, uiShown>>

\* QProcess.finished(exit_code) -> ConversionWorker._on_process_finished;
\* the finished signal is queued to the MainWindow living in the UI thread
OnProcessFinished(w, exit_code) ==
    /\ w <= nWorkers
    /\ worker[w].threadRunning
    /\ worker[w].process = "running"
    /\ LET success == Success(exit_code) IN
          /\ job' = [job EXCEPT
                        ![w].status = IF success THEN "completed" ELSE "failed",
                        ![w].error_message =
                            IF success THEN @ ELSE ExitMessage(exit_code)]
          /\ finishedEmitted' = [finishedEmitted EXCEPT
                        ![w] = Append(@, <<worker[w].current_file, success>>)]
          /\ uiQueue' = Append(uiQueue, <<w, worker[w].current_file, success>>)
    /\ worker' = [worker EXCEPT ![w].process = "exited", ![w].exitCode = exit_code]
    /\ UNCHANGED <<fileCount, convertEnabled, cancelEnabled, panelStatus,
                   overallProgress, conversion_worker, conversion_thread, nWorkers,
                   uiShown>>

\* ConversionWorker.cancel
Cancel(w) ==
    IF worker[w].process # "none"
    THEN /\ job' = [job EXCEPT ![w].status = "cancelled"]
         /\ worker' = [worker EXCEPT
                          ![w].cancelCalled = TRUE,
                          ![w].cancelledRunning = @ \/ worker[w].process = "running"]
    ELSE UNCHANGED <<job, worker>>

\* ProgressPanel cancel button -> MainWindow._on_cancel_clicked
OnCancelClicked ==
    /\ cancelEnabled
    /\ IF conversion_worker # 0
       THEN /\ Cancel(conversion_worker)
            /\ panelStatus' = "Cancelled"
       ELSE UNCHANGED <<job, worker, panelStatus>>
    /\ UNCHANGED <<fileCount, convertEnabled, cancelEnabled, overallProgress,
                   conversion_worker, conversion_thread, nWorkers, finishedEmitted,
                   uiQueue, uiShown>>

\* delivery of a queued finished(filename, success) -> MainWindow._on_conversion_finished
OnConversionFinished ==
    /\ uiQueue # <<>>
    /\ LET w == Head(uiQueue)[1]
           success == Head(uiQueue)[3]
       IN /\ cancelEnabled' = FALSE
          /\ convertEnabled' = TRUE
          /\ IF conversion_thread # 0
             THEN /\ worker' = [worker EXCEPT ![conversion_thread].threadRunning = FALSE]
                  /\ conversion_thread' = 0
             ELSE UNCHANGED <<worker, conversion_thread>>
          /\ IF success
             THEN /\ panelStatus' = "Conversion complete!"
                  /\ overallProgress' = 100
                  /\ uiShown' = [uiShown EXCEPT ![w] = Append(@, "complete")]
             ELSE /\ panelStatus' = "Conversion failed"
                  /\ overallProgress' = overallProgress
                  /\ uiShown' = [uiShown EXCEPT ![w] = Append(@, "failed_warning")]
    /\ uiQueue' = Tail(uiQueue)
    /\ UNCHANGED <<fileCount, conversion_worker, nWorkers, job, finishedEmitted>>

(***************************************************************************)
(* DownloadWorker (gui/workers/download_worker.py)                         *)
(*                                                                         *)
(* File contents are byte strings; sizes are counted in bytes.  The chunk  *)
(* size of iter_content (CHUNK_SIZE in the source) is scaled to MaxChunk.  *)
(***************************************************************************)
MaxLen == 2         \* longest response body / installed file, in bytes
MaxChunk == 2       \* largest chunk iter_content yields
MaxSize == 2        \* largest declared voice.size_bytes

Bytes == {0}

Exts == {".onnx", ".onnx.json"}

\* byte strings of length 0..MaxLen
Contents == UNION {[1..n -> Bytes] : n \in 0..MaxLen}

\* file_info.get("md5_digest", ""): absent and empty are the same
NoDigest == <<>>

\* hashlib.md5(...).hexdigest(), as a collision-free digest of the bytes
Md5(data) == <<"md5", Len(data), data>>

\* contents of the files a catalog publishes (never empty)
PublishedContents == Contents \ {<<>>}

Digests == {NoDigest} \cup {Md5(c) : c \in PublishedContents}

\* a path that does not exist / a regular file holding data
Absent == [exists |-> FALSE, data |-> <<>>]
File(data) == [exists |-> TRUE, data |-> data]

\* target_path = voice_dir / f"{key}{ext}"
TargetPath(ext) == <<"key", ext>>

\* temp_path = target_path.with_suffix(target_path.suffix + ".tmp")
TempPath(ext) == <<"key", ext, ".tmp">>

Paths == {TargetPath(e) : e \in Exts} \cup {TempPath(e) : e \in Exts}

\* the orderings of voice.files: a dict keyed by extension, in insertion order
FileOrders ==
    {<<>>, <<".onnx">>, <<".onnx.json">>,
     <<".onnx", ".onnx.json">>, <<".onnx.json", ".onnx">>}

Voices ==
    UNION {
        { [files |-> [i \in 1..Len(o) |-> [ext |-> o[i], md5_digest |-> d[i]]],
           size_bytes |-> sz] :
             d \in [1..Len(o) -> Digests], sz \in 0..MaxSize }
        : o \in FileOrders }

Progress(v) == [sig |-> "progress", val |-> v]
Finished(ok) == [sig |-> "finished", val |-> IF ok THEN 1 ELSE 0]
Error == [sig |-> "error", val |-> 0]

MinOf(a, b) == IF a < b THEN a ELSE b

\* percent = int((downloaded / total_size) * 100); emitted as min(percent, 99).
\* The quotient is taken exactly: within the sizes of this model the source's
\* floating-point expression gives the same integer.
Percent(done, total_size) == MinOf((done * 100) \div total_size, 99)

\* where the run first read _cancelled as set, and the file then in flight
NotSeen == [at |-> "no", ext |-> ""]

\* the extension of the file the loop of run is at
CurExt == voice.files[fileIdx].ext
CurDigest == voice.files[fileIdx].md5_digest

\* DownloadWorker.__init__ with a voice; files of an earlier install of the same
\* voice may be present under their final names
DlInit ==
    /\ voice \in Voices
    /\ disk \in [Paths -> {Absent} \cup {File(c) : c \in PublishedContents}]
    /\ \A p \in Paths :
          disk[p].exists =>
              \E i \in 1..Len(voice.files) : p = TargetPath(voice.files[i].ext)
    /\ disk0 = disk
    /\ dlpc = "idle"
    /\ fileIdx = 1
    /\ downloaded = 0
    /\ dlCancelled = FALSE
    /\ remaining = <<>>
    /\ sent = [e \in Exts |-> [requested |-> FALSE, body |-> <<>>]]
    /\ signals = <<>>
    /\ checked = [e \in Exts |-> "unchecked"]
    /\ cancelSeen = NotSeen
    /\ installed = FALSE
    /\ reconciledAt = "never"

\* the download variables of a window in which no download was started
DlQuiet ==
    /\ voice = [files |-> <<>>, size_bytes |-> 0]
    /\ disk = [p \in Paths |-> Absent]
    /\ disk0 = disk
    /\ dlpc = "idle"
    /\ fileIdx = 1
    /\ downloaded = 0
    /\ dlCancelled = FALSE
    /\ remaining = <<>>
    /\ sent = [e \in Exts |-> [requested |-> FALSE, body |-> <<>>]]
    /\ signals = <<>>
    /\ checked = [e \in Exts |-> "unchecked"]
    /\ cancelSeen = NotSeen
    /\ installed = FALSE
    /\ reconciledAt = "never"

\* run: voice_dir.mkdir, total_size = size_bytes, downloaded = 0, enter the loop
RunBegin ==
    /\ dlpc = "idle"
    /\ dlpc' = "loop"
    /\ downloaded' = 0
    /\ fileIdx' = 1
    /\ UNCHANGED <<voice, disk, disk0, dlCancelled, remaining, sent, signals,
                   checked, cancelSeen, installed, reconciledAt>>

\* run: the loop is exhausted: progress.emit(100); finished.emit(True)
RunComplete ==
    /\ dlpc = "loop"
    /\ fileIdx > Len(voice.files)
    /\ signals' = signals \o <<Progress(100), Finished(TRUE)>>
    /\ dlpc' = "done"
    /\ UNCHANGED <<voice, disk, disk0, fileIdx, downloaded, dlCancelled, remaining,
                   sent, checked, cancelSeen, installed, reconciledAt>>

\* run: `if self._cancelled` at the top of the loop body
RunCancelledBetweenFiles ==
    /\ dlpc = "loop"
    /\ fileIdx <= Len(voice.files)
    /\ dlCancelled
    /\ signals' = Append(signals, Finished(FALSE))
    /\ cancelSeen' = IF cancelSeen = NotSeen
                     THEN [at |-> "between_files", ext |-> CurExt]
                     ELSE cancelSeen
    /\ dlpc' = "done"
    /\ UNCHANGED <<voice, disk, disk0, fileIdx, downloaded, dlCancelled, remaining,
                   sent, checked, installed, reconciledAt>>

\* _download_file: requests.get and raise_for_status succeed with response body b;
\* open(temp_path, "wb") creates or truncates the temp file
RequestOk(b) ==
    /\ dlpc = "loop"
    /\ fileIdx <= Len(voice.files)
    /\ ~dlCancelled
    /\ remaining' = b
    /\ sent' = [sent EXCEPT ![CurExt] = [requested |-> TRUE, body |-> b]]
    /\ disk' = [disk EXCEPT ![TempPath(CurExt)] = File(<<>>)]
    /\ dlpc' = "streaming"
    /\ UNCHANGED <<voice, disk0, fileIdx, downloaded, dlCancelled, signals,
                   checked, cancelSeen, installed, reconciledAt>>

\* the exception handler of run: error.emit(str(e)); finished.emit(False)
Raise ==
    /\ signals' = signals \o <<Error, Finished(FALSE)>>
    /\ dlpc' = "done"

\* _download_file: requests.get or raise_for_status raises
RequestFails ==
    /\ dlpc = "loop"
    /\ fileIdx <= Len(voice.files)
    /\ ~dlCancelled
    /\ Raise
    /\ UNCHANGED <<voice, disk, disk0, fileIdx, downloaded, dlCancelled, remaining,
                   sent, checked, cancelSeen, installed, reconciledAt>>

\* _download_file, on observing the flag in the chunk loop:
\* temp_path.unlink(missing_ok=True); return downloaded
AbortStreamMutRename(ext) ==
    [disk EXCEPT ![TargetPath(ext)] = disk[TempPath(ext)], ![TempPath(ext)] = Absent]
AbortStream(ext) == [disk EXCEPT ![TempPath(ext)] = Absent]

\* _download_file: iter_content yields the next n bytes
StreamChunk(n) ==
    /\ dlpc = "streaming"
    /\ n \in 1..MinOf(MaxChunk, Len(remaining))
    /\ IF dlCancelled
       THEN /\ disk' = AbortStream(CurExt)
            /\ cancelSeen' = [at |-> "mid_stream", ext |-> CurExt]
            /\ dlpc' = "verify"
            /\ UNCHANGED <<downloaded, signals, remaining>>
       ELSE /\ disk' = [disk EXCEPT ![TempPath(CurExt)] =
                           File(@.data \o SubSeq(remaining, 1, n))]
            /\ remaining' = SubSeq(remaining, n + 1, Len(remaining))
            /\ downloaded' = downloaded + n
            /\ signals' = IF voice.size_bytes > 0
                          THEN Append(signals,
                                      Progress(Percent(downloaded + n, voice.size_bytes)))
                          ELSE signals
            /\ UNCHANGED <<cancelSeen, dlpc>>
    /\ UNCHANGED <<voice, disk0, fileIdx, dlCancelled, sent, checked, installed,
                   reconciledAt>>

\* _download_file: the stream is exhausted; temp_path.rename(target_path)
Rename(ext) ==
    [disk EXCEPT ![TargetPath(ext)] = disk[TempPath(ext)], ![TempPath(ext)] = Absent]

StreamEnd ==
    /\ dlpc = "streaming"
    /\ remaining = <<>>
    /\ disk' = Rename(CurExt)
    /\ dlpc' = "verify"
    /\ UNCHANGED <<voice, disk0, fileIdx, downloaded, dlCancelled, remaining, sent,
                   signals, checked, cancelSeen, installed, reconciledAt>>

\* _download_file: iter_content raises in mid-stream; the temp file is closed and
\* left behind
StreamError ==
    /\ dlpc = "streaming"
    /\ Raise
    /\ UNCHANGED <<voice, disk, disk0, fileIdx, downloaded, dlCancelled, remaining,
                   sent, checked, cancelSeen, installed, reconciledAt>>

\* _verify_checksum(file_path, expected_md5) on an existing file
VerifyChecksumMutAccept(data, expected_md5) == TRUE
VerifyChecksum(data, expected_md5) == Md5(data) = expected_md5

\* run, after _download_file returned: verify the checksum of target_path
Verify ==
    /\ dlpc = "verify"
    /\ IF CurDigest = NoDigest
       THEN /\ fileIdx' = fileIdx + 1
            /\ dlpc' = "loop"
            /\ UNCHANGED <<signals, checked>>
       ELSE IF ~disk[TargetPath(CurExt)].exists
       THEN \* open(file_path, "rb") raises FileNotFoundError
            /\ Raise
            /\ UNCHANGED <<fileIdx, checked>>
       ELSE IF VerifyChecksum(disk[TargetPath(CurExt)].data, CurDigest)
       THEN /\ checked' = [checked EXCEPT ![CurExt] = "match"]
            /\ fileIdx' = fileIdx + 1
            /\ dlpc' = "loop"
            /\ UNCHANGED signals
       ELSE /\ checked' = [checked EXCEPT ![CurExt] = "mismatch"]
            /\ signals' = Append(signals, Finished(FALSE))
            /\ dlpc' = "done"
            /\ UNCHANGED fileIdx
    /\ UNCHANGED <<voice, disk, disk0, downloaded, dlCancelled, remaining, sent,
                   cancelSeen, installed, reconciledAt>>

\* DownloadWorker.cancel, called from another thread
DlCancel ==
    /\ dlpc # "done"
    /\ ~dlCancelled
    /\ dlCancelled' = TRUE
    /\ UNCHANGED <<voice, disk, disk0, dlpc, fileIdx, downloaded, remaining, sent,
                   signals, checked, cancelSeen, installed, reconciledAt>>

\* VoiceCatalog.update_installed_status(voices_dir), for the record of this voice:
\* voice.installed = (voices_dir / language / key / f"{key}.onnx").exists()
InstalledOnDiskMutJson(d) == d[TargetPath(".onnx.json")].exists
InstalledOnDisk(d) == d[TargetPath(".onnx")].exists

\* (the window reconciles on the UI thread, which is also the thread that runs
\* DownloadWorker.run to completion: main_window.py _show_voice_browser,
\* _on_download_voices; here it is run on the directory a run has left)
UpdateInstalledStatus ==
    /\ dlpc = "done"
    /\ installed' = InstalledOnDisk(disk)
    /\ reconciledAt' = dlpc
    /\ UNCHANGED <<voice, disk, disk0, dlpc, fileIdx, downloaded, dlCancelled,
                   remaining, sent, signals, checked, cancelSeen>>

(***************************************************************************)
(* VoiceCatalog.from_dict (gui/models/voice.py) on catalog documents       *)
(*                                                                         *)
(* A JSON mapping is the sequence of its [k, v] entries in iteration order *)
(* (json.load keeps document order).  The document is a mapping            *)
(* lang_code -> speaker_name -> quality_level -> voice_data, or some other *)
(* JSON value; a voice_data is a mapping or some other JSON value.         *)
(***************************************************************************)
MaxLeaves == 2      \* most leaf descriptors in a document of the catalog runs

Languages == {"en_US", "de_DE"}
Speakers == {"ryan"}
Qualities == {"high", "medium"}

\* an entry that a mapping does not have
Missing == <<>>

\* f"{lang_code}-{speaker_name}-{quality_level}"
DefaultKey(lang_code, speaker_name, quality_level) ==
    <<lang_code, "-", speaker_name, "-", quality_level>>

\* speaker_name.title()
Title(name) == IF name = "ryan" THEN "Ryan" ELSE name

\* file names <<stem, suffix>>: "v.onnx", "v.onnx.json", "MODEL_CARD"
Filenames == {<<"v", ".onnx">>, <<"v", ".onnx.json">>, <<"MODEL_CARD", "">>}

\* filename.endswith(suffix)
EndsWith(filename, suffix) == filename[2] = suffix

\* a file_info mapping with or without a "size_bytes" entry
FileInfo(n) == [has_size |-> TRUE, size_bytes |-> n]
NoSizeInfo == [has_size |-> FALSE, size_bytes |-> 0]

\* file_info.get("size_bytes", 0)
GetSizeBytes(file_info) == IF file_info.has_size THEN file_info.size_bytes ELSE 0

Entry(k, v) == [k |-> k, v |-> v]

\* the "files" entry of a voice_data: absent, or a mapping filename -> file_info
NoFiles == [present |-> FALSE, items |-> <<>>]
Files(items) == [present |-> TRUE, items |-> items]

\* voice_data.get("files", {}) as its sequence of entries
GetFiles(voice_data) == IF voice_data.files.present THEN voice_data.files.items ELSE <<>>

\* {"v.onnx": {"size_bytes": 2}, "v.onnx.json": {}}
ModelAndConfig ==
    Files(<<Entry(<<"v", ".onnx">>, FileInfo(2)),
            Entry(<<"v", ".onnx.json">>, NoSizeInfo)>>)

\* {"v.onnx": {"size_bytes": 2}, "MODEL_CARD": {"size_bytes": 1}}
ModelAndCard ==
    Files(<<Entry(<<"v", ".onnx">>, FileInfo(2)),
            Entry(<<"MODEL_CARD", "">>, FileInfo(1))>>)

\* a leaf that is a JSON value other than a mapping (a number, a string, a list)
NotADescriptor ==
    [mapping |-> FALSE, key |-> Missing, name |-> Missing, files |-> NoFiles,
     installed |-> FALSE]

\* a leaf mapping: "key", "name" and "files" entries present or not, and
\* possibly an "installed": true entry
Descriptor(key, files, inst) ==
    [mapping |-> TRUE, key |-> key, name |-> Missing, files |-> files,
     installed |-> inst]

PlainDescriptor == Descriptor(Missing, NoFiles, FALSE)

\* a "key" entry some descriptors carry: "en_US-ryan-high"
ExplicitKey == DefaultKey("en_US", "ryan", "high")

\* the leaf values of the documents given to from_dict alone
ParseDescriptors ==
    { NotADescriptor,
      PlainDescriptor,
      Descriptor(ExplicitKey, ModelAndConfig, FALSE),
      Descriptor(Missing, ModelAndCard, FALSE) }

\* the leaf values of the documents behind a catalog that is then queried
QueryDescriptors ==
    { PlainDescriptor, Descriptor(ExplicitKey, NoFiles, TRUE) }

\* sequences without repetition over K, at most n long
InjectiveSeqs(K, n) ==
    UNION { { ks \in [1..m -> K] : \A i, j \in 1..m : i # j => ks[i] # ks[j] }
            : m \in 0..n }

\* mappings with keys in K and values in V, by their entries in iteration order
Mappings(K, V) ==
    UNION { { [i \in 1..Len(ks) |-> Entry(ks[i], vs[i])] : vs \in [1..Len(ks) -> V] }
            : ks \in InjectiveSeqs(K, Cardinality(K)) }

RECURSIVE Concat(_)
\* the concatenation of a sequence of sequences
Concat(ss) == IF ss = <<>> THEN <<>> ELSE Head(ss) \o Concat(Tail(ss))

\* the (lang_code, speaker_name, quality_level, voice_data) visited by the
\* three nested loops of from_dict, in order
LeavesOfQualitiesMutFirstOnly(lang_code, speaker_name, qualities) ==
    [q \in 1..(IF Len(qualities) > 0 THEN 1 ELSE 0) |->
        [language |-> lang_code, speaker |-> speaker_name,
         quality |-> qualities[q].k, voice_data |-> qualities[q].v]]
LeavesOfQualities(lang_code, speaker_name, qualities) ==
    [q \in 1..Len(qualities) |->
        [language |-> lang_code, speaker |-> speaker_name,
         quality |-> qualities[q].k, voice_data |-> qualities[q].v]]

LeavesOfSpeakers(lang_code, speakers) ==
    Concat([s \in 1..Len(speakers) |->
               LeavesOfQualities(lang_code, speakers[s].k, speakers[s].v)])

LeavesOf(items) ==
    Concat([l \in 1..Len(items) |-> LeavesOfSpeakers(items[l].k, items[l].v)])

\* a JSON value that is not a mapping of mappings of mappings
OtherJson == [mapping |-> FALSE, items |-> <<>>]
CatalogDoc(items) == [mapping |-> TRUE, items |-> items]

\* the three-level documents over descriptors D
Docs(D) ==
    { CatalogDoc(items) :
        items \in Mappings(Languages, Mappings(Speakers, Mappings(Qualities, D))) }

RECURSIVE TotalSize(_)
\* sum(file_info.get("size_bytes", 0) for file_info in files.values())
TotalSize(items) ==
    IF items = <<>> THEN 0
    ELSE GetSizeBytes(Head(items).v) + TotalSize(Tail(items))

\* the key under which the normalising loop stores an entry, "" for none
NormalisedKey(filename) ==
    IF EndsWith(filename, ".onnx.json") THEN ".onnx.json"
    ELSE IF EndsWith(filename, ".onnx") THEN ".onnx"
    ELSE ""

\* the files dict built by the normalising loop, as its set of <<key, file_info>>:
\* a later entry with the same normalised key replaces an earlier one
NormaliseFiles(items) ==
    { <<NormalisedKey(items[i].k), items[i].v>> :
        i \in { n \in 1..Len(items) :
                  /\ NormalisedKey(items[n].k) # ""
                  /\ \A m \in (n + 1)..Len(items) :
                        NormalisedKey(items[m].k) # NormalisedKey(items[n].k) } }

\* the Voice(...) built in the loop body for one leaf; installed takes the
\* dataclass default
VoiceOfLeafMutTrustInstalled(leaf) ==
    [key |-> IF leaf.voice_data.key # Missing THEN leaf.voice_data.key
             ELSE DefaultKey(leaf.language, leaf.speaker, leaf.quality),
     name |-> IF leaf.voice_data.name # Missing THEN leaf.voice_data.name
              ELSE Title(leaf.speaker),
     language |-> leaf.language,
     quality |-> leaf.quality,
     files |-> NormaliseFiles(GetFiles(leaf.voice_data)),
     size_bytes |-> TotalSize(GetFiles(leaf.voice_data)),
     installed |-> leaf.voice_data.installed]
VoiceOfLeaf(leaf) ==
    [key |-> IF leaf.voice_data.key # Missing THEN leaf.voice_data.key
             ELSE DefaultKey(leaf.language, leaf.speaker, leaf.quality),
     name |-> IF leaf.voice_data.name # Missing THEN leaf.voice_data.name
              ELSE Title(leaf.speaker),
     language |-> leaf.language,
     quality |-> leaf.quality,
     files |-> NormaliseFiles(GetFiles(leaf.voice_data)),
     size_bytes |-> TotalSize(GetFiles(leaf.voice_data)),
     installed |-> FALSE]

\* VoiceCatalog.from_dict(data) when no .items(), .get() or .values() raises
FromDict(data) ==
    [voices |-> [i \in 1..Len(LeavesOf(data.items)) |->
                    VoiceOfLeaf(LeavesOf(data.items)[i])]]

\* from_dict raises AttributeError: data has no .items(), or a voice_data has
\* no .get()
FromDictRaises(data) ==
    \/ ~data.mapping
    \/ \E i \in 1..Len(LeavesOf(data.items)) :
          ~LeavesOf(data.items)[i].voice_data.mapping

\* the payloads and cache contents of the catalog runs: documents of one
\* language and speaker with plain descriptors, and a value that is no mapping
JsonValues ==
    {OtherJson} \cup
    { CatalogDoc(<<Entry("en_US", <<Entry("ryan", qualities)>>)>>) :
        qualities \in { m \in Mappings(Qualities, {PlainDescriptor}) :
                          Len(m) <= MaxLeaves } }

(***************************************************************************)
(* VoiceCatalog (gui/models/voice.py): from_dict, filter, get_by_key and   *)
(* update_installed_status on one catalog object                           *)
(***************************************************************************)
NoCatalog == [state |-> "none", voices |-> <<>>]

\* an argument left at its default None, or given
None == <<>>
Some(x) == <<x>>

NoQuery == [op |-> "none", language |-> None, quality |-> None, installed |-> None,
            result |-> <<>>]

\* voices_dir / voice.language / voice.key / f"{voice.key}.onnx"
VoicePath(v) == <<v.language, v.key, v.key, ".onnx">>

FilterMutAnyCriterion(voices, language, quality, inst) ==
    LET Match(v) == \/ language # None /\ v.language = language[1]
                    \/ quality # None /\ v.quality = quality[1]
                    \/ inst # None /\ v.installed = inst[1]
    IN SelectSeq(voices, Match)
\* VoiceCatalog.filter(language, quality, installed)
Filter(voices, language, quality, inst) ==
    LET ByLanguage(v) == v.language = language[1]
        ByQuality(v) == v.quality = quality[1]
        ByInstalled(v) == v.installed = inst[1]
        r0 == voices
        r1 == IF language # None THEN SelectSeq(r0, ByLanguage) ELSE r0
        r2 == IF quality # None THEN SelectSeq(r1, ByQuality) ELSE r1
        r3 == IF inst # None THEN SelectSeq(r2, ByInstalled) ELSE r2
    IN r3

\* VoiceCatalog.get_by_key(key): the first record with that key as <<voice>>,
\* or None
GetByKey(voices, key) ==
    IF \E i \in 1..Len(voices) : voices[i].key = key
    THEN Some(voices[CHOOSE i \in 1..Len(voices) :
                        /\ voices[i].key = key
                        /\ \A j \in 1..(i - 1) : voices[j].key # key])
    ELSE None

WithInstalledStatusMutKeepTrue(voices, dir) ==
    [i \in 1..Len(voices) |->
        [voices[i] EXCEPT !.installed = @ \/ VoicePath(voices[i]) \in dir]]
\* the records after the loop of update_installed_status(voices_dir):
\* voice.installed = voice_path.exists()
WithInstalledStatus(voices, dir) ==
    [i \in 1..Len(voices) |->
        [voices[i] EXCEPT !.installed = VoicePath(voices[i]) \in dir]]

\* documents whose catalog is then reconciled and filtered
QueryDocs ==
    { d \in Docs(QueryDescriptors) : Len(LeavesOf(d.items)) <= MaxLeaves }

\* documents given to from_dict alone
ParseDocs == {OtherJson} \cup Docs(ParseDescriptors)

VcInitParse ==
    /\ document \in ParseDocs
    /\ voiceCatalog = NoCatalog
    /\ voices_dir = {}
    /\ query = NoQuery

VcInitQuery ==
    /\ document \in QueryDocs
    /\ voiceCatalog = NoCatalog
    /\ voices_dir = {}
    /\ query = NoQuery

\* the voice voiceCatalog variables of a window that built no voiceCatalog
VcQuiet ==
    /\ document = OtherJson
    /\ voiceCatalog = NoCatalog
    /\ voices_dir = {}
    /\ query = NoQuery

\* catalog = VoiceCatalog.from_dict(document)
FromDictCall ==
    /\ voiceCatalog.state = "none"
    /\ voiceCatalog' = IF FromDictRaises(document)
                  THEN [state |-> "raised", voices |-> <<>>]
                  ELSE [state |-> "parsed", voices |-> FromDict(document).voices]
    /\ UNCHANGED <<document, voices_dir, query>>

\* result = catalog.filter(language, quality, installed)
FilterCall(language, quality, inst) ==
    /\ voiceCatalog.state = "parsed"
    /\ query' = [op |-> "filter", language |-> language, quality |-> quality,
                 installed |-> inst,
                 result |-> Filter(voiceCatalog.voices, language, quality, inst)]
    /\ UNCHANGED <<document, voiceCatalog, voices_dir>>

\* catalog.update_installed_status(voices_dir)
UpdateInstalledStatusCall ==
    /\ voiceCatalog.state = "parsed"
    /\ voiceCatalog' = [voiceCatalog EXCEPT !.voices = WithInstalledStatus(@, voices_dir)]
    /\ query' = [NoQuery EXCEPT !.op = "update_installed_status"]
    /\ UNCHANGED <<document, voices_dir>>

\* a model file appears at the path of a record (a download installed it)
ModelFileAppears(p) ==
    /\ voiceCatalog.state = "parsed"
    /\ p \in {VoicePath(voiceCatalog.voices[i]) : i \in 1..Len(voiceCatalog.voices)}
    /\ p \notin voices_dir
    /\ voices_dir' = voices_dir \cup {p}
    /\ query' = NoQuery
    /\ UNCHANGED <<document, voiceCatalog>>

\* a model file is deleted from the voices directory
ModelFileRemoved(p) ==
    /\ p \in voices_dir
    /\ voices_dir' = voices_dir \ {p}
    /\ query' = NoQuery
    /\ UNCHANGED <<document, voiceCatalog>>

\* the arguments given to filter
LanguageArgs == {None, Some("en_US")}
QualityArgs == {None, Some("high")}
InstalledArgs == {None, Some(TRUE), Some(FALSE)}

\* every path a record of some catalog can have
VoicePaths ==
    { <<l, k, k, ".onnx">> :
        l \in Languages,
        k \in {DefaultKey(l2, s, q) : l2 \in Languages, s \in Speakers, q \in Qualities} }

(***************************************************************************)
(* CatalogWorker (gui/workers/catalog_worker.py)                           *)
(***************************************************************************)
CACHE_TTL_HOURS == 24

AgeWindow == 1      \* cache ages lie within this many hours of the TTL, or are 0

\* age of the cache file (now - mtime), in hours
Ages == {0} \cup ((CACHE_TTL_HOURS - AgeWindow)..(CACHE_TTL_HOURS + AgeWindow))
MaxCatRuns == 2     \* CatalogWorker runs in one behaviour

\* contents of a file: text that is not JSON, or the dump of a JSON value
Garbage == [json |-> FALSE, value |-> OtherJson]

\* json.dump(data, f)
JsonDumpMutNotJson(data) == [json |-> FALSE, value |-> OtherJson]
JsonDump(data) == [json |-> TRUE, value |-> data]

FileContents == {Garbage} \cup {JsonDump(v) : v \in JsonValues}

NoCache == [exists |-> FALSE, readable |-> FALSE, age |-> 0, content |-> Garbage]

CacheFiles ==
    {NoCache} \cup
    [exists : {TRUE}, readable : BOOLEAN, age : Ages,
     content : FileContents]

\* str(e) of the exceptions a run can catch
NoText == ""
NetworkFailures == {"ConnectionError", "HTTPError", "JSONDecodeError"}
FromDictFailure == "AttributeError"

\* catalogReady.emit(catalog); error.emit(str(e))
CatalogReady(catalog) == [sig |-> "catalogReady", catalog |-> catalog, text |-> NoText]
CatErrorMutNoText(e) == [sig |-> "error", catalog |-> [voices |-> <<>>], text |-> NoText]
CatError(e) == [sig |-> "error", catalog |-> [voices |-> <<>>], text |-> e]

\* what requests.get(...) and response.json() gave the run, if it asked
NoResponse == [asked |-> FALSE, ok |-> FALSE, data |-> OtherJson, text |-> NoText]
Response(data) == [asked |-> TRUE, ok |-> TRUE, data |-> data, text |-> NoText]
FailedResponse(e) == [asked |-> TRUE, ok |-> FALSE, data |-> OtherJson, text |-> e]

\* _is_cache_valid: the file exists and now - mtime < timedelta(hours=CACHE_TTL_HOURS)
IsCacheValidMutInverted(f) == f.exists /\ f.age > CACHE_TTL_HOURS
IsCacheValid(f) == f.exists /\ f.age < CACHE_TTL_HOURS

\* _load_from_cache: "none" when open or json.load raises IOError /
\* JSONDecodeError, "raise" when from_dict raises, else "catalog"
LoadFromCache(f) ==
    IF ~f.readable \/ ~f.content.json THEN "none"
    ELSE IF FromDictRaises(f.content.value) THEN "raise"
    ELSE "catalog"

CatInit ==
    /\ cacheFile \in CacheFiles
    /\ cache0 = cacheFile
    /\ force_refresh = FALSE
    /\ catpc = "idle"
    /\ netCalls = 0
    /\ catSignals = <<>>
    /\ catRuns = 0
    /\ response = NoResponse

\* the catalog variables of a window that fetched no catalog
CatQuiet ==
    /\ cacheFile = NoCache
    /\ cache0 = cacheFile
    /\ force_refresh = FALSE
    /\ catpc = "idle"
    /\ netCalls = 0
    /\ catSignals = <<>>
    /\ catRuns = 0
    /\ response = NoResponse

\* CatalogWorker(force_refresh=force).run(), up to the cache decision
CatRun(force) ==
    /\ catpc \in {"idle", "done"}
    /\ catRuns < MaxCatRuns
    /\ catRuns' = catRuns + 1
    /\ force_refresh' = force
    /\ cache0' = cacheFile
    /\ netCalls' = 0
    /\ response' = NoResponse
    /\ IF ~force /\ IsCacheValid(cacheFile) /\ LoadFromCache(cacheFile) = "catalog"
       THEN /\ catSignals' = <<CatalogReady(FromDict(cacheFile.content.value))>>
            /\ catpc' = "done"
       ELSE IF ~force /\ IsCacheValid(cacheFile) /\ LoadFromCache(cacheFile) = "raise"
       THEN /\ catSignals' = <<CatError(FromDictFailure)>>
            /\ catpc' = "done"
       ELSE /\ catSignals' = <<>>
            /\ catpc' = "fetching"
    /\ UNCHANGED cacheFile

\* _fetch_from_network: requests.get succeeds and response.json() returns data;
\* _save_to_cache(data); from_dict(data)
NetOk(data) ==
    /\ catpc = "fetching"
    /\ netCalls' = netCalls + 1
    /\ cacheFile' = [exists |-> TRUE, readable |-> TRUE, age |-> 0,
                     content |-> JsonDump(data)]
    /\ response' = Response(data)
    /\ catSignals' = IF FromDictRaises(data)
                     THEN Append(catSignals, CatError(FromDictFailure))
                     ELSE Append(catSignals, CatalogReady(FromDict(data)))
    /\ catpc' = "done"
    /\ UNCHANGED <<cache0, force_refresh, catRuns>>

\* _fetch_from_network: requests.get, raise_for_status or response.json() raises
NetFails(e) ==
    /\ catpc = "fetching"
    /\ netCalls' = netCalls + 1
    /\ response' = FailedResponse(e)
    /\ catSignals' = Append(catSignals, CatError(e))
    /\ catpc' = "done"
    /\ UNCHANGED <<cacheFile, cache0, force_refresh, catRuns>>

\* wall-clock time passes between runs: the cache file grows older
TimePasses ==
    /\ catpc \in {"idle", "done"}
    /\ cacheFile.exists
    /\ \E a \in Ages :
          /\ a > cacheFile.age
          /\ cacheFile' = [cacheFile EXCEPT !.age = a]
    /\ UNCHANGED <<cache0, force_refresh, catpc, netCalls, catSignals, catRuns, response>>

(***************************************************************************)
(* SettingsPanel, job construction and the converter's command line        *)
(* (gui/views/settings_panel.py, gui/views/main_window.py,                 *)
(*  gui/models/conversion_job.py, gui/workers/conversion_worker.py)        *)
(*                                                                         *)
(* The speed slider counts tenths (10 is 1.0x); length_scale is counted in *)
(* thousandths (1000 is 1.0).  A command-line argument is the sequence of  *)
(* the strings it is formatted from.                                       *)
(***************************************************************************)
FilePaths == {"book.epub", "notes.txt"}

VoiceKeys == {"en_US-ryan-high"}

\* items of the _random_filter combo box
FilterItems == {"Any", "Medium"}

\* positions of the speed slider (its range is 1..30)
SliderPositions == {5, 10, 20}

\* the file lists of FileListModel: add_file refuses a path already listed
FileLists == InjectiveSeqs(FilePaths, MaxFiles)

\* the panel as built by _setup_ui: not random, "Any", no voice, slider at 1.0x
SettingsPanel ==
    [random_checkbox |-> FALSE, random_filter |-> "Any", voice_selector |-> None,
     speed_slider |-> 10]

\* str.lower() on the combo box texts
Lower(text) ==
    CASE text = "Any" -> "any"
      [] text = "Medium" -> "medium"
      [] OTHER -> text

GetSelectedVoice(p) == IF p.random_checkbox THEN None ELSE p.voice_selector

IsRandomMode(p) == p.random_checkbox

GetRandomFilter(p) ==
    IF ~p.random_checkbox THEN None
    ELSE IF Lower(p.random_filter) = "any" THEN None
    ELSE Some(Lower(p.random_filter))

\* get_speed: slider.value() / 10.0, kept in tenths
GetSpeed(p) == p.speed_slider

\* round(a / b) for positive a, b (no tie occurs for the slider's range)
RoundDivMutTruncate(a, b) == a \div b
RoundDiv(a, b) == (2 * a + b) \div (2 * b)

\* get_length_scale: round(1.0 / speed, 3), in thousandths
GetLengthScaleMutWholeNumber(p) == 1000 * RoundDiv(10, GetSpeed(p))
GetLengthScale(p) == RoundDiv(10000, GetSpeed(p))

\* the neutral length_scale 1.0
NeutralLengthScale == 1000

\* the dataclass with its defaults for the fields the caller does not pass
NewConversionJob(files, voice_key, random_voice, random_filter, length_scale) ==
    [files |-> files, voice_key |-> voice_key, random_voice |-> random_voice,
     random_filter |-> random_filter, length_scale |-> length_scale,
     status |-> "pending", current_file_index |-> -1, error_message |-> NoMessage]

\* no ConversionJob has been constructed
NoJob ==
    [NewConversionJob(<<>>, None, FALSE, None, NeutralLengthScale)
        EXCEPT !.status = "none"]

\* ConversionJob.get_current_file
GetCurrentFile(j) ==
    IF j.current_file_index = -1 THEN None
    ELSE IF j.current_file_index >= Len(j.files) THEN None
    ELSE Some(j.files[j.current_file_index + 1])

\* str(int) for a natural number, as the sequence of its digits
DigitChars == <<"0", "1", "2", "3", "4", "5", "6", "7", "8", "9">>

RECURSIVE IntStr(_)
IntStr(n) ==
    IF n < 10 THEN <<DigitChars[n + 1]>>
    ELSE Append(IntStr(n \div 10), DigitChars[(n % 10) + 1])

\* the digits after the point of a float with at most three decimals:
\* trailing zeros are not printed, but one digit always is
FracStr(m) ==
    IF m % 1000 = 0 THEN <<"0">>
    ELSE IF m % 100 = 0 THEN <<DigitChars[(m \div 100) + 1]>>
    ELSE IF m % 10 = 0
         THEN <<DigitChars[(m \div 100) + 1], DigitChars[((m \div 10) % 10) + 1]>>
    ELSE <<DigitChars[(m \div 100) + 1], DigitChars[((m \div 10) % 10) + 1],
           DigitChars[(m % 10) + 1]>>

\* str(length_scale) as the f-string prints the float
FloatStr(ls) == IntStr(ls \div 1000) \o <<".">> \o FracStr(ls % 1000)

\* str(get_script_path())
Script == <<"make-audiobook">>

\* _build_command: the random-voice option
RandomArgsMutDropFilter(j) == IF j.random_voice THEN << <<"--random">> >> ELSE <<>>
RandomArgs(j) ==
    IF j.random_voice
    THEN IF j.random_filter # None /\ j.random_filter # Some("")
         THEN << <<"--random=", j.random_filter[1]>> >>
         ELSE << <<"--random">> >>
    ELSE <<>>

\* _build_command: the length-scale option
LengthScaleArgs(j) ==
    IF j.length_scale # NeutralLengthScale
    THEN << <<"--length_scale=">> \o FloatStr(j.length_scale) >>
    ELSE <<>>

\* _build_command: the input files, one argument each
FileArgsMutVoiceFirst(j) ==
    (IF j.voice_key # None THEN << <<j.voice_key[1]>> >> ELSE <<>>)
        \o [i \in 1..Len(j.files) |-> <<j.files[i]>>]
FileArgs(j) == [i \in 1..Len(j.files) |-> <<j.files[i]>>]

\* _build_command
BuildCommand(j) == <<Script>> \o RandomArgs(j) \o LengthScaleArgs(j) \o FileArgs(j)

\* the environment the application itself runs in
SystemEnvironment == {<<"PATH", "/usr/bin">>}

\* no QProcess has been started
NoLaunch ==
    [started |-> FALSE, program |-> <<>>, arguments |-> <<>>, environment |-> {},
     stdin |-> <<>>]

\* ConversionWorker.start: QProcess.start(program, args) with no process
\* environment set (the child inherits the application's) and nothing written
\* to the child's standard input
StartProcess(cmd) ==
    [started |-> TRUE, program |-> cmd[1], arguments |-> Tail(cmd),
     environment |-> SystemEnvironment, stdin |-> <<>>]

CmdInit ==
    /\ settings = SettingsPanel
    /\ file_list = <<>>
    /\ cjob = NoJob
    /\ launch = NoLaunch

\* the random check box is toggled
SetRandomMode(b) ==
    /\ settings.random_checkbox # b
    /\ settings' = [settings EXCEPT !.random_checkbox = b]
    /\ UNCHANGED <<file_list, cjob, launch>>

\* an item of the random quality filter is chosen
SetRandomFilter(item) ==
    /\ settings.random_filter # item
    /\ settings' = [settings EXCEPT !.random_filter = item]
    /\ UNCHANGED <<file_list, cjob, launch>>

\* a voice (or none, while no voice is installed) is current in the selector
SelectVoice(k) ==
    /\ settings.voice_selector # k
    /\ settings' = [settings EXCEPT !.voice_selector = k]
    /\ UNCHANGED <<file_list, cjob, launch>>

\* the speed slider is moved
SetSpeed(pos) ==
    /\ settings.speed_slider # pos
    /\ settings' = [settings EXCEPT !.speed_slider = pos]
    /\ UNCHANGED <<file_list, cjob, launch>>

\* files are added to or removed from the file list
FilesEdited(list) ==
    /\ file_list # list
    /\ file_list' = list
    /\ UNCHANGED <<settings, cjob, launch>>

\* MainWindow._on_convert_clicked: `if not files: return`, else the job is built
\* from the panel and handed to _start_conversion
CreateJob ==
    /\ cjob = NoJob
    /\ file_list # <<>>
    /\ cjob' = NewConversionJob(file_list, GetSelectedVoice(settings),
                                IsRandomMode(settings), GetRandomFilter(settings),
                                GetLengthScale(settings))
    /\ UNCHANGED <<settings, file_list, launch>>

\* QThread.started -> ConversionWorker.start: the QProcess is created, its signals
\* are connected and it is started with the command of _build_command
Start ==
    /\ cjob # NoJob
    /\ ~launch.started
    /\ launch' = StartProcess(BuildCommand(cjob))
    /\ qprocess' = [qprocess EXCEPT !.state = "starting"]
    /\ UNCHANGED <<settings, file_list, cjob, parseVars>>

(***************************************************************************)
(* ConversionWorker: the converter's output                                *)
(* (gui/workers/conversion_worker.py, _on_stdout_ready .. _on_process_     *)
(* finished)                                                               *)
(*                                                                         *)
(* Output is a stream of pieces of text: a newline, a blank, a text that   *)
(* matches the byte-transfer pattern, a 'Processing file N of M' text, or  *)
(* some other text.  A line is a sequence of pieces without a newline.     *)
(* _on_stderr_ready / _handle_stderr are the same code as the stdout pair; *)
(* one channel is modelled.                                                *)
(***************************************************************************)
MaxOutput == 3      \* most pieces the process writes in one run

ProgressStep == 5
ProgressCap == 95

Newline == <<"\n">>
Space == <<" ">>
PvText == <<"10KiB">>
OtherText == <<"Converting">>
FileText(n, m) == <<"Processing file ", n, " of ", m>>

IsFileText(t) == Len(t) = 4

\* the N and M of the 'Processing file N of M' lines of the parser runs
LineNumbers == 0..(MaxFiles + 1)

\* the lines given to _parse_progress_output in the parser runs
ProgressLines ==
    {<<OtherText>>, <<PvText>>}
        \cup {<<FileText(n, m)>> : n \in LineNumbers, m \in LineNumbers}
        \cup {<<PvText, Space, FileText(n, m)>> : n \in LineNumbers, m \in LineNumbers}

\* the pieces the process writes in the output runs
OutputPieces == {Newline, Space, PvText, OtherText, FileText(2, 2), FileText(1, 0)}

\* re.search(r"(\d+(?:\.\d+)?)\s*(B|KiB|MiB|GiB)", line)
PvMatch(line) == \E i \in DOMAIN line : line[i] = PvText

\* re.search(r"Processing file (\d+) of (\d+)", line): the leftmost match
FileMatches(line) == {i \in DOMAIN line : IsFileText(line[i])}

HasFileMatch(line) == FileMatches(line) # {}

FileMatch(line) ==
    line[CHOOSE i \in FileMatches(line) : \A k \in FileMatches(line) : i <= k]

\* progress.emit(filename, percent); `of` tells which statement emitted it
Emit(filename, percent, of) == [filename |-> filename, percent |-> percent, of |-> of]

\* min(self._current_file_progress + 5, 95)
NextEstimateMutNoCap(estimate) == estimate + ProgressStep
NextEstimate(estimate) == MinOf(estimate + ProgressStep, ProgressCap)

\* int((current - 1) / total * 100): int() truncates towards zero.  The quotient
\* is taken exactly: for the numbers of this model the floating-point
\* expression gives the same integer.
Overall(current, total) ==
    LET num == (current - 1) * 100
    IN IF num >= 0 THEN num \div total ELSE -((-num) \div total)

NoLine == <<>>

\* the state _parse_progress_output reads and writes, with its emissions
Parser ==
    [current_file |-> current_file, current_file_progress |-> current_file_progress,
     log |-> log, lastLine |-> lastLine, emitted |-> emitted,
     lastOverall |-> lastOverall, fault |-> fault]

\* _parse_progress_output: the byte-transfer branch
ParsePv(p, line) ==
    IF PvMatch(line)
    THEN LET estimate == NextEstimate(p.current_file_progress)
         IN [p EXCEPT !.current_file_progress = estimate,
                      !.emitted = IF p.current_file # None
                                  THEN Append(@, Emit(p.current_file[1], estimate, "file"))
                                  ELSE @]
    ELSE p

\* _parse_progress_output: the 'Processing file N of M' branch.  files[current - 1]
\* is files[-1], the last file, for current = 0; the division raises for total = 0,
\* after the current file was switched and its progress reset.
ParseFile(p, files, line) ==
    IF ~HasFileMatch(line) THEN p
    ELSE LET current == FileMatch(line)[2]
             total == FileMatch(line)[4]
         IN IF current > Len(files) THEN p
            ELSE IF files = <<>> THEN [p EXCEPT !.fault = "IndexError"]
            ELSE LET f == IF current = 0 THEN files[Len(files)] ELSE files[current]
                     q == [p EXCEPT !.current_file = Some(f),
                                    !.current_file_progress = 0]
                 IN IF total = 0
                    THEN [q EXCEPT !.fault = "ZeroDivisionError"]
                    ELSE [q EXCEPT
                            !.emitted = Append(@, Emit(f, Overall(current, total),
                                                       "overall")),
                            !.lastOverall = Some(Overall(current, total))]

\* _parse_progress_output(line)
ParseProgressOutput(p, files, line) ==
    ParseFile(ParsePv([p EXCEPT !.lastLine = line, !.emitted = <<>>,
                                !.fault = "none"], line),
              files, line)

\* _handle_stdout(line): log.emit(line); _parse_progress_output(line)
HandleStdout(p, files, line) ==
    ParseProgressOutput([p EXCEPT !.log = Append(@, line)], files, line)

\* str.splitlines() on the decoded data
RECURSIVE SplitLines(_)
SplitLines(text) ==
    IF text = <<>> THEN <<>>
    ELSE LET breaks == {i \in DOMAIN text : text[i] = Newline}
         IN IF breaks = {} THEN <<text>>
            ELSE LET k == CHOOSE i \in breaks : \A b \in breaks : i <= b
                 IN <<SubSeq(text, 1, k - 1)>>
                        \o SplitLines(SubSeq(text, k + 1, Len(text)))

\* line.strip() is empty
IsBlank(line) == \A i \in DOMAIN line : line[i] = Space

\* the loop of _on_stdout_ready over data.splitlines(); an exception raised by
\* _parse_progress_output ends the slot, the lines after it are not handled
RECURSIVE HandleLines(_, _, _)
HandleLines(p, files, lines) ==
    IF lines = <<>> THEN p
    ELSE IF IsBlank(Head(lines)) THEN HandleLines(p, files, Tail(lines))
    ELSE LET q == HandleStdout(p, files, Head(lines))
         IN IF q.fault # "none" THEN q ELSE HandleLines(q, files, Tail(lines))

\* the variables take the values of a parser state
Becomes(p) ==
    /\ current_file' = p.current_file
    /\ current_file_progress' = p.current_file_progress
    /\ log' = p.log
    /\ lastLine' = p.lastLine
    /\ emitted' = p.emitted
    /\ lastOverall' = p.lastOverall
    /\ fault' = p.fault

\* no ConversionWorker.start yet
NoProcess == [state |-> "none", terminate |-> FALSE, finished |-> <<>>]

OutQuiet ==
    /\ qprocess = NoProcess
    /\ current_file = None
    /\ current_file_progress = 0
    /\ pipe = <<>>
    /\ written = <<>>
    /\ log = <<>>
    /\ lastLine = NoLine
    /\ emitted = <<>>
    /\ lastOverall = None
    /\ fault = "none"

\* a job built from the untouched panel for a non-empty file list, handed to a
\* worker whose start() has just launched the converter
CmdLaunched ==
    /\ settings = SettingsPanel
    /\ file_list \in FileLists \ {<<>>}
    /\ cjob = NewConversionJob(file_list, GetSelectedVoice(settings),
                               IsRandomMode(settings), GetRandomFilter(settings),
                               GetLengthScale(settings))
    /\ launch = StartProcess(BuildCommand(cjob))

OutInit ==
    /\ qprocess = [NoProcess EXCEPT !.state = "starting"]
    /\ current_file = None
    /\ current_file_progress = 0
    /\ pipe = <<>>
    /\ written = <<>>
    /\ log = <<>>
    /\ lastLine = NoLine
    /\ emitted = <<>>
    /\ lastOverall = None
    /\ fault = "none"

\* QProcess.started -> _on_process_started
ProcessStarted ==
    /\ qprocess.state = "starting"
    /\ qprocess' = [qprocess EXCEPT !.state = "running"]
    /\ cjob' = [cjob EXCEPT !.status = "in_progress",
                            !.current_file_index = IF cjob.files # <<>> THEN 0 ELSE @]
    /\ current_file' = IF cjob.files # <<>> THEN Some(cjob.files[1]) ELSE current_file
    /\ UNCHANGED <<settings, file_list, launch, current_file_progress, pipe, written,
                   log, lastLine, emitted, lastOverall, fault>>

\* the converter writes a piece of text to its output
ProcessWrites(piece) ==
    /\ qprocess.state = "running"
    /\ Len(written) < MaxOutput
    /\ pipe' = Append(pipe, piece)
    /\ written' = Append(written, piece)
    /\ UNCHANGED <<settings, file_list, cjob, launch, qprocess, current_file,
                   current_file_progress, log, lastLine, emitted, lastOverall, fault>>

\* QProcess.readyReadStandardOutput -> _on_stdout_ready: readAll takes what has
\* arrived so far, whether or not it ends at a line break
OnStdoutReady ==
    /\ qprocess.state = "running"
    /\ pipe # <<>>
    /\ pipe' = <<>>
    /\ Becomes(HandleLines(Parser, cjob.files, SplitLines(pipe)))
    /\ UNCHANGED <<settings, file_list, cjob, launch, qprocess, written>>

\* ConversionWorker.cancel: the job is marked, the process asked to terminate
CancelRun ==
    /\ qprocess.state # "none"
    /\ ~qprocess.terminate
    /\ cjob' = [cjob EXCEPT !.status = "cancelled"]
    /\ qprocess' = [qprocess EXCEPT !.terminate = TRUE]
    /\ UNCHANGED <<settings, file_list, launch, parseVars>>

\* QProcess.finished(exit_code) -> _on_process_finished; QProcess hands over the
\* output still in the pipe before it emits finished
ProcessExits(exit_code) ==
    /\ qprocess.state = "running"
    /\ pipe = <<>>
    /\ cjob' = [cjob EXCEPT
                  !.status = IF Success(exit_code) THEN "completed" ELSE "failed",
                  !.error_message = IF Success(exit_code) THEN @
                                    ELSE ExitMessage(exit_code)]
    /\ qprocess' = [qprocess EXCEPT
                      !.state = "exited",
                      !.finished = Append(@, <<IF current_file # None
                                               THEN current_file[1] ELSE "",
                                             Success(exit_code)>>)]
    /\ UNCHANGED <<settings, file_list, launch, parseVars>>

\* _parse_progress_output(line) on a running worker
ParseCall(line) ==
    /\ qprocess.state = "running"
    /\ Becomes(ParseProgressOutput(Parser, cjob.files, line))
    /\ UNCHANGED <<settings, file_list, cjob, launch, qprocess, pipe, written>>

(***************************************************************************)
(* MainWindow: voice catalog and voice download handlers                   *)
(* (gui/views/main_window.py, _on_update_catalog .. _on_voice_downloaded)  *)
(*                                                                         *)
(* The handlers are slots of the window, which lives in the UI thread.     *)
(* `ui` is the slot the UI thread is executing ("idle": it is in the       *)
(* application's event loop; "dialog": it is in the event loop of the      *)
(* voice browser, inside _show_voice_browser).                             *)
(***************************************************************************)
MaxRequested == 2   \* most voices selected for one download request

UiThread == "ui"

\* worker.run() is a plain call: it executes in the thread of its caller
DirectCall(thread) == thread

\* a worker whose run() was entered, and the thread that executes it
WorkerRun(kind, thread) == [worker |-> kind, thread |-> thread]

\* the voices the browser offers: [language, key, name, files]
RyanHigh ==
    [language |-> "en_US", key |-> "en_US-ryan-high", name |-> "Ryan",
     files |-> <<".onnx", ".onnx.json">>]

AmyLow ==
    [language |-> "en_US", key |-> "en_US-amy-low", name |-> "Amy",
     files |-> <<".onnx", ".onnx.json">>]

KarlLow ==
    [language |-> "de_DE", key |-> "de_DE-karl-low", name |-> "Karl",
     files |-> <<".onnx">>]

BrowserVoices == {RyanHigh, AmyLow, KarlLow}

\* the selections the browser can emit with downloadRequested: never empty
Selections == InjectiveSeqs(BrowserVoices, MaxRequested) \ {<<>>}

\* how DownloadWorker.run can end
RunOutcomes == {"installed", "checksum_mismatch", "network_error"}

\* DownloadWorker.run as its caller sees it: the finished emissions, whether
\* error was emitted, and whether an exception leaves run (`except Exception`
\* catches what _download_file and _verify_checksum raise)
DownloadRunMutReraise(outcome) ==
    [finished |-> IF outcome = "network_error" THEN <<>> ELSE <<outcome = "installed">>,
     error |-> FALSE,
     raised |-> outcome = "network_error"]
DownloadRun(outcome) ==
    [finished |-> <<outcome = "installed">>,
     error |-> outcome = "network_error",
     raised |-> FALSE]

\* _on_voice_downloaded(success, voice): a status bar message or a warning box
OnVoiceDownloaded(success, v) ==
    [voice |-> v.key, success |-> success,
     shown |-> IF success THEN "Downloaded" ELSE "Download Failed"]

WinInit ==
    /\ ui = "idle"
    /\ workerRuns = {}
    /\ requested = <<>>
    /\ reqIdx = 1
    /\ notified = <<>>
    /\ shown = "none"

\* Tools > Update Voice Catalog -> _on_update_catalog, up to the call of run()
OnUpdateCatalog ==
    /\ ui = "idle"
    /\ ui' = "_on_update_catalog"
    /\ shown' = "Updating voice catalog..."
    /\ workerRuns' = workerRuns \cup {WorkerRun("CatalogWorker", DirectCall(UiThread))}
    /\ UNCHANGED <<requested, reqIdx, notified>>

\* Browse Voices -> _on_browse_voices, up to the call of run()
OnBrowseVoices ==
    /\ ui = "idle"
    /\ ui' = "_on_browse_voices"
    /\ workerRuns' = workerRuns \cup {WorkerRun("CatalogWorker", DirectCall(UiThread))}
    /\ UNCHANGED <<requested, reqIdx, notified, shown>>

\* CatalogWorker.run returns into the slot, having emitted catalogReady or error
CatalogRunReturns(ready) ==
    /\ ui \in {"_on_update_catalog", "_on_browse_voices"}
    /\ IF ui = "_on_update_catalog"
       THEN /\ shown' = IF ready THEN "Voice catalog updated" ELSE "Failed to update"
            /\ ui' = "idle"
       ELSE IF ready
       THEN \* _show_voice_browser: dialog.exec()
            /\ shown' = "VoiceBrowserDialog"
            /\ ui' = "dialog"
       ELSE /\ shown' = "Failed to load voices"
            /\ ui' = "idle"
    /\ UNCHANGED <<workerRuns, requested, reqIdx, notified>>

\* the dialog is closed: dialog.exec(), _show_voice_browser, run() and
\* _on_browse_voices return
DialogClosed ==
    /\ ui = "dialog"
    /\ ui' = "idle"
    /\ UNCHANGED <<workerRuns, requested, reqIdx, notified, shown>>

\* downloadRequested(voices) -> _on_download_voices: the loop is entered
OnDownloadVoices(voices) ==
    /\ ui = "dialog"
    /\ ui' = "_on_download_voices"
    /\ requested' = voices
    /\ reqIdx' = 1
    /\ notified' = <<>>
    /\ UNCHANGED <<workerRuns, shown>>

\* one turn of the loop of _on_download_voices: DownloadWorker(voice), connect,
\* worker.run(); finished reaches _on_voice_downloaded while run() executes
DownloadOne(outcome) ==
    /\ ui = "_on_download_voices"
    /\ reqIdx <= Len(requested)
    /\ LET r == DownloadRun(outcome)
           slots == [i \in 1..Len(r.finished) |->
                        OnVoiceDownloaded(r.finished[i], requested[reqIdx])]
       IN /\ workerRuns' =
                workerRuns \cup {WorkerRun("DownloadWorker", DirectCall(UiThread))}
          /\ notified' = notified \o slots
          /\ shown' = IF slots # <<>> THEN slots[Len(slots)].shown ELSE shown
          /\ IF r.raised
             THEN \* the exception leaves the slot: the loop is abandoned
                  /\ ui' = "dialog"
                  /\ reqIdx' = reqIdx
             ELSE /\ reqIdx' = reqIdx + 1
                  /\ ui' = IF reqIdx = Len(requested) THEN "dialog" ELSE ui
    /\ UNCHANGED requested

(***************************************************************************)
(* DownloadWorker runs on a shared voices directory, by the paths they     *)
(* touch (gui/workers/download_worker.py)                                  *)
(*                                                                         *)
(* A path is the sequence of its components below the voices directory; a  *)
(* file name is the sequence of the strings it is formatted from.          *)
(***************************************************************************)
Runs == {1, 2}

\* voice_dir = self._voices_dir / self._voice.language / self._voice.key
voice_dir(v) == <<v.language, v.key>>

\* target_path = voice_dir / f"{self._voice.key}{ext}"
target_path(v, ext) == Append(voice_dir(v), <<v.key, ext>>)

\* temp_path = target_path.with_suffix(target_path.suffix + ".tmp")
temp_pathMutSharedTmp(target) ==
    <<"shared", "tmp", Append(<<target[Len(target)][2]>>, ".tmp")>>
temp_path(target) ==
    Append(SubSeq(target, 1, Len(target) - 1), Append(target[Len(target)], ".tmp"))

\* a DownloadWorker constructed for a voice
NewDownloadWorker(v) ==
    [voice |-> v, pc |-> "idle", fileIdx |-> 1, cancelled |-> FALSE, touched |-> {},
     finished |-> <<>>]

InstQuiet ==
    /\ installs = [r \in Runs |-> NewDownloadWorker(RyanHigh)]
    /\ tree = {}

\* two workers, for the same voice or for different ones, on an empty directory
InstInit ==
    /\ installs \in [Runs -> {NewDownloadWorker(v) : v \in BrowserVoices}]
    /\ tree = {}

CurTarget(r) ==
    target_path(installs[r].voice, installs[r].voice.files[installs[r].fileIdx])

\* run ends: finished.emit(ok)
Ends(r, ok, paths) ==
    [installs EXCEPT ![r].pc = "done", ![r].finished = Append(@, ok),
                     ![r].touched = @ \cup paths]

\* run: voice_dir.mkdir(parents=True, exist_ok=True)
InstallBegin(r) ==
    /\ installs[r].pc = "idle"
    /\ tree' = tree \cup {<<installs[r].voice.language>>, voice_dir(installs[r].voice)}
    /\ installs' = [installs EXCEPT ![r].pc = "loop"]

\* run: the loop is exhausted: progress.emit(100); finished.emit(True)
InstallComplete(r) ==
    /\ installs[r].pc = "loop"
    /\ installs[r].fileIdx > Len(installs[r].voice.files)
    /\ installs' = Ends(r, TRUE, {})
    /\ UNCHANGED tree

\* run: `if self._cancelled` at the top of the loop body
InstallCancelledBetweenFiles(r) ==
    /\ installs[r].pc = "loop"
    /\ installs[r].fileIdx <= Len(installs[r].voice.files)
    /\ installs[r].cancelled
    /\ installs' = Ends(r, FALSE, {})
    /\ UNCHANGED tree

\* _download_file: the request succeeds; open(temp_path, "wb")
InstallOpenTemp(r) ==
    /\ installs[r].pc = "loop"
    /\ installs[r].fileIdx <= Len(installs[r].voice.files)
    /\ ~installs[r].cancelled
    /\ tree' = tree \cup {temp_path(CurTarget(r))}
    /\ installs' = [installs EXCEPT ![r].pc = "streaming",
                                    ![r].touched = @ \cup {temp_path(CurTarget(r))}]

\* _download_file: requests.get, raise_for_status or iter_content raises; a temp
\* file already opened is left behind
InstallRaises(r) ==
    /\ \/ installs[r].pc = "streaming"
       \/ /\ installs[r].pc = "loop"
          /\ installs[r].fileIdx <= Len(installs[r].voice.files)
          /\ ~installs[r].cancelled
    /\ installs' = Ends(r, FALSE, {})
    /\ UNCHANGED tree

\* _download_file: the chunks were written to the temp file and either the flag
\* was seen set in the chunk loop (temp_path.unlink(missing_ok=True)) or the
\* stream ended (temp_path.rename(target_path), which raises when the temp file
\* is gone)
InstallStreamEnds(r, seen) ==
    /\ installs[r].pc = "streaming"
    /\ seen => installs[r].cancelled
    /\ LET target == CurTarget(r)
           temp == temp_path(target)
       IN IF seen
          THEN /\ tree' = tree \ {temp}
               /\ installs' = [installs EXCEPT ![r].pc = "verify",
                                               ![r].touched = @ \cup {temp}]
          ELSE IF temp \in tree
          THEN /\ tree' = (tree \ {temp}) \cup {target}
               /\ installs' = [installs EXCEPT ![r].pc = "verify",
                                               ![r].touched = @ \cup {temp, target}]
          ELSE /\ tree' = tree
               /\ installs' = Ends(r, FALSE, {temp})

\* run: _verify_checksum(target_path, expected_md5) opens the target to read it
InstallVerify(r, matches) ==
    /\ installs[r].pc = "verify"
    /\ IF CurTarget(r) \notin tree
       THEN installs' = Ends(r, FALSE, {CurTarget(r)})
       ELSE IF matches
       THEN installs' = [installs EXCEPT ![r].pc = "loop", ![r].fileIdx = @ + 1,
                                         ![r].touched = @ \cup {CurTarget(r)}]
       ELSE installs' = Ends(r, FALSE, {CurTarget(r)})
    /\ UNCHANGED tree

\* DownloadWorker.cancel
InstallCancel(r) ==
    /\ installs[r].pc \notin {"idle", "done"}
    /\ ~installs[r].cancelled
    /\ installs' = [installs EXCEPT ![r].cancelled = TRUE]
    /\ UNCHANGED tree

(***************************************************************************)
(* The configuration file and the speed preference                         *)
(* (gui/utils/config.py, MainWindow.__init__ / _apply_config /             *)
(*  _save_config / closeEvent, SettingsPanel.set_speed / set_length_scale) *)
(*                                                                         *)
(* Of the configuration's keys, "speed" and "length_scale" are modelled;   *)
(* the other keys are read and written back unchanged.  A speed is counted *)
(* in tenths when it is a slider position or a stored "speed", the         *)
(* argument of set_speed and every length_scale in thousandths.            *)
(***************************************************************************)
\* JSON values of a configuration key: a number or a string
Num(n) == [type |-> "number", n |-> n]
Str == [type |-> "string", n |-> 0]

\* get_default_config: "speed": 1.0, and no "length_scale" key
DefaultConfig == [speed |-> Some(Num(10)), length_scale |-> None]

\* a JSON object with at most the two keys
ConfigObjects ==
    [speed : {None, Some(Num(15))},
     length_scale : {None, Some(Num(1500)), Some(Num(500)), Some(Num(0)), Some(Str)}]

\* no configuration file
NoConfigFile == [exists |-> FALSE, json |-> FALSE, content |-> [speed |-> None, length_scale |-> None]]

\* a file whose text is not JSON
CorruptConfigFile == [NoConfigFile EXCEPT !.exists = TRUE]

\* json.dump(config, f)
ConfigFileOf(c) == [exists |-> TRUE, json |-> TRUE, content |-> c]

\* what may lie at the configuration path when the application is not running
ConfigFiles == {NoConfigFile, CorruptConfigFile} \cup {ConfigFileOf(c) : c \in ConfigObjects}

\* round(a / b) for positive a, b; a tie goes to the even neighbour
RoundHalfEven(a, b) ==
    LET q == a \div b
        r == a % b
    IN IF 2 * r > b \/ (2 * r = b /\ q % 2 = 1) THEN q + 1 ELSE q

\* round(1.0 / ls, 1), in tenths, of a positive length_scale in thousandths
MigratedSpeedMutTruncated(ls) == 10000 \div ls
MigratedSpeed(ls) == RoundHalfEven(10000, ls)

\* load_config
LoadConfig(f) ==
    IF ~f.exists THEN DefaultConfig
    ELSE IF ~f.json THEN DefaultConfig
    ELSE LET loaded == f.content
             result == [speed |-> IF loaded.speed # None THEN loaded.speed
                                  ELSE DefaultConfig.speed,
                        length_scale |-> loaded.length_scale]
         IN IF result.length_scale # None /\ loaded.speed = None
            THEN LET ls == result.length_scale[1]
                 IN IF ls.type = "number" /\ ls.n > 0
                    THEN [speed |-> Some(Num(MigratedSpeed(ls.n))), length_scale |-> None]
                    ELSE [result EXCEPT !.length_scale = None]
            ELSE [result EXCEPT !.length_scale = None]

\* int(x) of the quotient a / b, b positive: truncation towards zero
Trunc(a, b) == IF a >= 0 THEN a \div b ELSE -((-a) \div b)

\* QSlider.setValue on the slider of range 1..30: the value is bound to the range
SliderSetValue(n) == IF n < 1 THEN 1 ELSE IF n > 30 THEN 30 ELSE n

\* SettingsPanel.set_speed(value): slider.setValue(int(value * 10)), value in
\* thousandths
SetSpeedOf(p, value) ==
    [p EXCEPT !.speed_slider = SliderSetValue(Trunc(value * 10, 1000))]

\* SettingsPanel.set_length_scale(value), value in thousandths:
\* speed = round(1.0 / value, 1) if value > 0 else 1.0
SetLengthScaleOf(p, value) ==
    SetSpeedOf(p, IF value > 0 THEN 100 * RoundHalfEven(10000, value) ELSE 1000)

\* bool(x) of a JSON value
Truthy(x) == x.type = "string" \/ x.n # 0

\* MainWindow._apply_config: `if self._config.get("length_scale"): set_length_scale`
ApplyConfig(c, p) ==
    IF c.length_scale # None /\ Truthy(c.length_scale[1])
    THEN SetLengthScaleOf(p, c.length_scale[1].n)
    ELSE p

\* MainWindow._save_config: the dictionary saved
SavedConfig(c, p) == [c EXCEPT !.length_scale = Some(Num(GetLengthScale(p)))]

\* arguments of set_speed and set_length_scale, in thousandths
SpeedValues == {-1000, 0, 1550, 5000}
LengthScaleValues == {-500, 0, 1500, 100000}

CfgQuiet ==
    /\ configFile = NoConfigFile
    /\ config = DefaultConfig
    /\ session = "open"
    /\ closedSpeed = None

\* the application is not running and has no configuration file yet
CfgInit ==
    /\ configFile = NoConfigFile
    /\ config = DefaultConfig
    /\ session = "closed"
    /\ closedSpeed = None

\* MainWindow.__init__: load_config, _setup_ui, _apply_config
Launch ==
    /\ session = "closed"
    /\ session' = "open"
    /\ config' = LoadConfig(configFile)
    /\ settings' = ApplyConfig(LoadConfig(configFile), SettingsPanel)
    /\ file_list' = <<>>
    /\ cjob' = NoJob
    /\ launch' = NoLaunch
    /\ UNCHANGED <<configFile, closedSpeed>>

\* MainWindow.closeEvent: _save_config, then the window closes
CloseEvent ==
    /\ session = "open"
    /\ session' = "closed"
    /\ config' = SavedConfig(config, settings)
    /\ configFile' = ConfigFileOf(SavedConfig(config, settings))
    /\ closedSpeed' = Some(GetSpeed(settings))
    /\ UNCHANGED cmdVars

\* between two sessions the file is replaced (the file of an older version, an
\* edited or damaged file) or removed
ConfigFileReplaced(f) ==
    /\ session = "closed"
    /\ configFile # f
    /\ configFile' = f
    /\ closedSpeed' = None
    /\ UNCHANGED <<config, session, cmdVars>>

\* the speed slider is moved in a running session
SliderMoved(pos) ==
    /\ session = "open"
    /\ SetSpeed(pos)
    /\ UNCHANGED cfgVars

\* SettingsPanel.set_speed is called
SetSpeedCall(value) ==
    /\ session = "open"
    /\ settings' = SetSpeedOf(settings, value)
    /\ settings' # settings
    /\ UNCHANGED <<file_list, cjob, launch, cfgVars>>

\* SettingsPanel.set_length_scale is called
SetLengthScaleCall(value) ==
    /\ session = "open"
    /\ settings' = SetLengthScaleOf(settings, value)
    /\ settings' # settings
    /\ UNCHANGED <<file_list, cjob, launch, cfgVars>>

\* files are listed in a running session
FilesListed(list) ==
    /\ session = "open"
    /\ FilesEdited(list)
    /\ UNCHANGED cfgVars

\* Convert is clicked in a running session
ConvertClicked ==
    /\ session = "open"
    /\ CreateJob
    /\ UNCHANGED cfgVars

\* the command, output, window, install and configuration variables of a session that uses
\* none of them
GuiQuiet == CmdInit /\ OutQuiet /\ WinInit /\ InstQuiet /\ CfgQuiet

Init == ConvInit /\ DlQuiet /\ CatQuiet /\ VcQuiet /\ GuiQuiet

Next ==
    \/ OnFilesChanged /\ UNCHANGED <<dlVars, catVars, vcVars, guiVars>>
    \/ OnConvertClicked /\ UNCHANGED <<dlVars, catVars, vcVars, guiVars>>
    \/ \E w \in Workers : WorkerStart(w) /\ UNCHANGED <<dlVars, catVars, vcVars, guiVars>>
    \/ \E w \in Workers : ProcessFailedToStart(w) /\ UNCHANGED <<dlVars, catVars, vcVars, guiVars>>
    \/ \E w \in Workers : OnProcessStarted(w) /\ UNCHANGED <<dlVars, catVars, vcVars, guiVars>>
    \/ \E w \in Workers : \E c \in ExitCodes :
          OnProcessFinished(w, c) /\ UNCHANGED <<dlVars, catVars, vcVars, guiVars>>
    \/ OnCancelClicked /\ UNCHANGED <<dlVars, catVars, vcVars, guiVars>>
    \/ OnConversionFinished /\ UNCHANGED <<dlVars, catVars, vcVars, guiVars>>

Spec == Init /\ [][Next]_vars

InitDownload == ConvInit /\ DlInit /\ CatQuiet /\ VcQuiet /\ GuiQuiet

NextDownload ==
    \/ RunBegin /\ UNCHANGED <<convVars, catVars, vcVars, guiVars>>
    \/ RunComplete /\ UNCHANGED <<convVars, catVars, vcVars, guiVars>>
    \/ RunCancelledBetweenFiles /\ UNCHANGED <<convVars, catVars, vcVars, guiVars>>
    \/ \E b \in Contents : RequestOk(b) /\ UNCHANGED <<convVars, catVars, vcVars, guiVars>>
    \/ RequestFails /\ UNCHANGED <<convVars, catVars, vcVars, guiVars>>
    \/ \E n \in 1..MaxChunk : StreamChunk(n) /\ UNCHANGED <<convVars, catVars, vcVars, guiVars>>
    \/ StreamEnd /\ UNCHANGED <<convVars, catVars, vcVars, guiVars>>
    \/ StreamError /\ UNCHANGED <<convVars, catVars, vcVars, guiVars>>
    \/ Verify /\ UNCHANGED <<convVars, catVars, vcVars, guiVars>>
    \/ DlCancel /\ UNCHANGED <<convVars, catVars, vcVars, guiVars>>
    \/ UpdateInstalledStatus /\ UNCHANGED <<convVars, catVars, vcVars, guiVars>>

SpecDownload == InitDownload /\ [][NextDownload]_vars

InitCatalog == ConvInit /\ DlQuiet /\ CatInit /\ VcQuiet /\ GuiQuiet

NextCatalog ==
    \/ \E force \in BOOLEAN : CatRun(force) /\ UNCHANGED <<convVars, dlVars, vcVars, guiVars>>
    \/ \E data \in JsonValues : NetOk(data) /\ UNCHANGED <<convVars, dlVars, vcVars, guiVars>>
    \/ \E e \in NetworkFailures : NetFails(e) /\ UNCHANGED <<convVars, dlVars, vcVars, guiVars>>
    \/ TimePasses /\ UNCHANGED <<convVars, dlVars, vcVars, guiVars>>

SpecCatalog == InitCatalog /\ [][NextCatalog]_vars

InitParse == ConvInit /\ DlQuiet /\ CatQuiet /\ VcInitParse /\ GuiQuiet

NextParse ==
    \/ FromDictCall /\ UNCHANGED <<convVars, dlVars, catVars, guiVars>>

SpecParse == InitParse /\ [][NextParse]_vars

InitVoices == ConvInit /\ DlQuiet /\ CatQuiet /\ VcInitQuery /\ GuiQuiet

NextVoices ==
    \/ FromDictCall /\ UNCHANGED <<convVars, dlVars, catVars, guiVars>>
    \/ \E l \in LanguageArgs, q \in QualityArgs, i \in InstalledArgs :
          FilterCall(l, q, i) /\ UNCHANGED <<convVars, dlVars, catVars, guiVars>>
    \/ UpdateInstalledStatusCall /\ UNCHANGED <<convVars, dlVars, catVars, guiVars>>
    \/ \E p \in VoicePaths : ModelFileAppears(p) /\ UNCHANGED <<convVars, dlVars, catVars, guiVars>>
    \/ \E p \in VoicePaths : ModelFileRemoved(p) /\ UNCHANGED <<convVars, dlVars, catVars, guiVars>>

SpecVoices == InitVoices /\ [][NextVoices]_vars

CoreQuiet == ConvInit /\ DlQuiet /\ CatQuiet /\ VcQuiet

InitCommand == CoreQuiet /\ CmdInit /\ OutQuiet /\ WinInit /\ InstQuiet /\ CfgQuiet

NextCommand ==
    \/ \E b \in BOOLEAN : SetRandomMode(b) /\ UNCHANGED <<coreVars, outVars, winVars, instVars, cfgVars>>
    \/ \E item \in FilterItems :
          SetRandomFilter(item) /\ UNCHANGED <<coreVars, outVars, winVars, instVars, cfgVars>>
    \/ \E k \in {None} \cup {Some(key) : key \in VoiceKeys} :
          SelectVoice(k) /\ UNCHANGED <<coreVars, outVars, winVars, instVars, cfgVars>>
    \/ \E pos \in SliderPositions :
          SetSpeed(pos) /\ UNCHANGED <<coreVars, outVars, winVars, instVars, cfgVars>>
    \/ \E list \in FileLists :
          FilesEdited(list) /\ UNCHANGED <<coreVars, outVars, winVars, instVars, cfgVars>>
    \/ CreateJob /\ UNCHANGED <<coreVars, outVars, winVars, instVars, cfgVars>>
    \/ Start /\ UNCHANGED <<coreVars, winVars, instVars, cfgVars>>

SpecCommand == InitCommand /\ [][NextCommand]_vars

InitOutput == CoreQuiet /\ CmdLaunched /\ OutInit /\ WinInit /\ InstQuiet /\ CfgQuiet

NextOutput ==
    \/ ProcessStarted /\ UNCHANGED <<coreVars, winVars, instVars, cfgVars>>
    \/ \E piece \in OutputPieces :
          ProcessWrites(piece) /\ UNCHANGED <<coreVars, winVars, instVars, cfgVars>>
    \/ OnStdoutReady /\ UNCHANGED <<coreVars, winVars, instVars, cfgVars>>
    \/ CancelRun /\ UNCHANGED <<coreVars, winVars, instVars, cfgVars>>
    \/ \E c \in ExitCodes : ProcessExits(c) /\ UNCHANGED <<coreVars, winVars, instVars, cfgVars>>

SpecOutput == InitOutput /\ [][NextOutput]_vars

NextProgress ==
    \/ ProcessStarted /\ UNCHANGED <<coreVars, winVars, instVars, cfgVars>>
    \/ \E line \in ProgressLines :
          ParseCall(line) /\ UNCHANGED <<coreVars, winVars, instVars, cfgVars>>

SpecProgress == InitOutput /\ [][NextProgress]_vars

InitWindow == CoreQuiet /\ CmdInit /\ OutQuiet /\ WinInit /\ InstQuiet /\ CfgQuiet

NextWindow ==
    \/ OnUpdateCatalog /\ UNCHANGED <<coreVars, cmdVars, outVars, instVars, cfgVars>>
    \/ OnBrowseVoices /\ UNCHANGED <<coreVars, cmdVars, outVars, instVars, cfgVars>>
    \/ \E ready \in BOOLEAN :
          CatalogRunReturns(ready) /\ UNCHANGED <<coreVars, cmdVars, outVars, instVars, cfgVars>>
    \/ DialogClosed /\ UNCHANGED <<coreVars, cmdVars, outVars, instVars, cfgVars>>
    \/ \E sel \in Selections :
          OnDownloadVoices(sel) /\ UNCHANGED <<coreVars, cmdVars, outVars, instVars, cfgVars>>
    \/ \E outcome \in RunOutcomes :
          DownloadOne(outcome) /\ UNCHANGED <<coreVars, cmdVars, outVars, instVars, cfgVars>>

SpecWindow == InitWindow /\ [][NextWindow]_vars

InitInstall == CoreQuiet /\ CmdInit /\ OutQuiet /\ WinInit /\ InstInit /\ CfgQuiet

NextInstall ==
    \/ \E r \in Runs : InstallBegin(r) /\ UNCHANGED <<coreVars, cmdVars, outVars, winVars, cfgVars>>
    \/ \E r \in Runs : InstallComplete(r) /\ UNCHANGED <<coreVars, cmdVars, outVars, winVars, cfgVars>>
    \/ \E r \in Runs :
          InstallCancelledBetweenFiles(r) /\ UNCHANGED <<coreVars, cmdVars, outVars, winVars, cfgVars>>
    \/ \E r \in Runs : InstallOpenTemp(r) /\ UNCHANGED <<coreVars, cmdVars, outVars, winVars, cfgVars>>
    \/ \E r \in Runs : InstallRaises(r) /\ UNCHANGED <<coreVars, cmdVars, outVars, winVars, cfgVars>>
    \/ \E r \in Runs : \E seen \in BOOLEAN :
          InstallStreamEnds(r, seen) /\ UNCHANGED <<coreVars, cmdVars, outVars, winVars, cfgVars>>
    \/ \E r \in Runs : \E matches \in BOOLEAN :
          InstallVerify(r, matches) /\ UNCHANGED <<coreVars, cmdVars, outVars, winVars, cfgVars>>
    \/ \E r \in Runs : InstallCancel(r) /\ UNCHANGED <<coreVars, cmdVars, outVars, winVars, cfgVars>>

SpecInstall == InitInstall /\ [][NextInstall]_vars

InitConfig == CoreQuiet /\ CmdInit /\ OutQuiet /\ WinInit /\ InstQuiet /\ CfgInit

NextConfig ==
    \/ Launch /\ UNCHANGED <<coreVars, outVars, winVars, instVars>>
    \/ CloseEvent /\ UNCHANGED <<coreVars, outVars, winVars, instVars>>
    \/ \E f \in ConfigFiles :
          ConfigFileReplaced(f) /\ UNCHANGED <<coreVars, outVars, winVars, instVars>>
    \/ \E pos \in SliderPositions :
          SliderMoved(pos) /\ UNCHANGED <<coreVars, outVars, winVars, instVars>>
    \/ \E value \in SpeedValues :
          SetSpeedCall(value) /\ UNCHANGED <<coreVars, outVars, winVars, instVars>>
    \/ \E value \in LengthScaleValues :
          SetLengthScaleCall(value) /\ UNCHANGED <<coreVars, outVars, winVars, instVars>>
    \/ \E list \in FileLists :
          FilesListed(list) /\ UNCHANGED <<coreVars, outVars, winVars, instVars>>
    \/ ConvertClicked /\ UNCHANGED <<coreVars, outVars, winVars, instVars>>

SpecConfig == InitConfig /\ [][NextConfig]_vars

(***************************************************************************)
(* Properties of the conversion model                                      *)
(***************************************************************************)

\* C1: a job's status only moves pending -> in_progress -> {completed, failed,
\* cancelled}; once it is completed, failed or cancelled no later worker event
\* (process started, process finished, cancel()) changes it again.
C1_TerminalStatusIsFinal ==
    [][\A w \in Workers :
          /\ job[w].status \in TerminalStatus => job'[w].status = job[w].status
          /\ job[w].status = "in_progress" => job'[w].status # "pending"]_vars

\* C2: if cancel() was called while the process was running, then once the
\* process has exited the job's status is cancelled, whatever the exit code.
C2_CancelledAfterExit ==
    \A w \in Workers :
        (worker[w].cancelledRunning /\ worker[w].process = "exited")
            => job[w].status = "cancelled"

\* C3: for a job that was never cancelled, process exit with code 0 leaves the
\* status completed, exit with a non-zero code leaves it failed with the
\* non-empty message "Process exited with code N"; exactly one finished
\* notification is emitted at the exit, with success flag true iff the code is 0,
\* and none is emitted before the exit.
C3_ExitCodeDecidesOutcome ==
    \A w \in Workers :
        /\ worker[w].process # "exited" => finishedEmitted[w] = <<>>
        /\ (worker[w].process = "exited" /\ ~worker[w].cancelCalled) =>
              /\ worker[w].exitCode = 0 => job[w].status = "completed"
              /\ worker[w].exitCode # 0 =>
                    /\ job[w].status = "failed"
                    /\ job[w].error_message # NoMessage
                    /\ job[w].error_message = ExitMessage(worker[w].exitCode)
              /\ Len(finishedEmitted[w]) = 1
              /\ finishedEmitted[w][1][2] = (worker[w].exitCode = 0)

C3_Witness ==
    \E w \in Workers :
        /\ worker[w].process = "exited"
        /\ ~worker[w].cancelCalled
        /\ worker[w].exitCode # 0
        /\ job[w].status = "failed"
        /\ finishedEmitted[w] = << <<1, FALSE>> >>

\* C4: after the user cancels a running conversion, no error-style notification
\* (the "Conversion failed" status with its warning dialog) is ever shown for
\* that job, whatever exit code the terminated process reports.
C4_NoErrorNoticeAfterCancel ==
    \A w \in Workers :
        worker[w].cancelledRunning =>
            \A i \in 1..Len(uiShown[w]) : uiShown[w][i] # "failed_warning"

(***************************************************************************)
(* Properties of the download model                                        *)
(***************************************************************************)
LastSignal == signals[Len(signals)]

ErrorEmitted == \E i \in 1..Len(signals) : signals[i].sig = "error"

\* the digest the voice declares for the file with extension e
DeclaredDigest(e) ==
    LET i == CHOOSE k \in 1..Len(voice.files) : voice.files[k].ext = e
    IN voice.files[i].md5_digest

VoiceExts == {voice.files[i].ext : i \in 1..Len(voice.files)}

\* C5: when a downloaded file's MD5 differs from its declared digest, the run
\* reports finished(False) and the mismatching bytes do not exist under the
\* file's final name.
C5_MismatchNotInstalled ==
    \A e \in Exts :
        checked[e] = "mismatch" =>
            /\ signals # <<>>
            /\ LastSignal = Finished(FALSE)
            /\ ~( /\ disk[TargetPath(e)].exists
                  /\ Md5(disk[TargetPath(e)].data) # DeclaredDigest(e) )

\* C6: once a run has observed the cancellation flag (between files or between
\* chunks), it ends with finished(False), emits no error notification, leaves
\* no .tmp file of the in-flight file and has not installed the in-flight file.
C6_CancelAbortsQuietly ==
    (dlpc = "done" /\ cancelSeen # NotSeen) =>
        /\ LastSignal = Finished(FALSE)
        /\ ~ErrorEmitted
        /\ ~disk[TempPath(cancelSeen.ext)].exists
        /\ disk[TargetPath(cancelSeen.ext)] = disk0[TargetPath(cancelSeen.ext)]

\* C7: a file under a final name is never a partially written stream: it is
\* the file that was there before the run or the complete body of this run's
\* response, and a final name changes only by the rename of the temp file
\* holding the completely written stream.
C7_FinalNameNeverPartial ==
    /\ [](\A e \in Exts :
            \/ disk[TargetPath(e)] = disk0[TargetPath(e)]
            \/ sent[e].requested /\ disk[TargetPath(e)] = File(sent[e].body))
    /\ [][\A e \in Exts :
            disk'[TargetPath(e)] # disk[TargetPath(e)] =>
                /\ dlpc = "streaming" /\ remaining = <<>>
                /\ disk[TempPath(e)] = File(sent[e].body)
                /\ disk'[TargetPath(e)] = disk[TempPath(e)]
                /\ ~disk'[TempPath(e)].exists]_vars

C7_Witness ==
    \E e \in Exts :
        /\ dlpc = "verify"
        /\ sent[e].requested
        /\ Len(sent[e].body) = MaxLen
        /\ disk[TargetPath(e)] = File(sent[e].body)
        /\ disk[TargetPath(e)] # disk0[TargetPath(e)]
        /\ disk0[TargetPath(e)].exists
        /\ Len(signals) >= 2

\* every declared file sits under its final name with the complete body of
\* this run's response
WholeVoiceInstalled ==
    \A e \in VoiceExts :
        sent[e].requested /\ disk[TargetPath(e)] = File(sent[e].body)

ProgressAt == {i \in 1..Len(signals) : signals[i].sig = "progress"}

\* C8: the progress values of a run are non-decreasing; every value below 100
\* is floor(bytes_so_far / size_bytes * 100) clamped to 99; 100 is emitted only
\* once, as the final progress value, when the whole voice has been installed.
C8_ProgressContract ==
    /\ \A i, j \in ProgressAt : i < j => signals[i].val <= signals[j].val
    /\ (voice.size_bytes > 0 /\ downloaded > 0 /\ Progress(100) \notin
            {signals[i] : i \in ProgressAt}) =>
           \E i \in ProgressAt :
              /\ \A j \in ProgressAt : j <= i
              /\ signals[i].val =
                    MinOf((downloaded * 100) \div voice.size_bytes, 99)
    /\ \A i \in ProgressAt :
           signals[i].val = 100 =>
              /\ \A j \in ProgressAt : j <= i
              /\ \A j \in ProgressAt : signals[j].val = 100 => j = i
              /\ WholeVoiceInstalled

\* a run that went to its end without observing a cancellation and without a
\* transport error, for a voice that declares a model file, in which the bytes
\* streamed for every declared file match the file's declared digest
CompleteMatchingRun ==
    /\ dlpc = "done"
    /\ cancelSeen = NotSeen
    /\ ~ErrorEmitted
    /\ ".onnx" \in VoiceExts
    /\ \A e \in VoiceExts :
          sent[e].requested /\ Md5(sent[e].body) = DeclaredDigest(e)

\* C9: install round trip: after a complete run in which every streamed file
\* matches its declared digest, the run has reported finished(True), the
\* .onnx file exists under its final name, and an update_installed_status
\* made after the run has set installed to true.
C9_InstallRoundTrip ==
    CompleteMatchingRun =>
        /\ LastSignal = Finished(TRUE)
        /\ disk[TargetPath(".onnx")].exists
        /\ reconciledAt = "done" => installed

C9_Witness ==
    /\ CompleteMatchingRun
    /\ Len(voice.files) = 2
    /\ ~disk0[TargetPath(".onnx")].exists
    /\ reconciledAt = "done"
    /\ installed

(***************************************************************************)
(* Properties of the catalog model                                         *)
(***************************************************************************)

\* C10: when force_refresh is false and the cache file exists, is less than
\* 24 hours old and holds a parseable catalog, the run performs no network
\* retrieval and emits catalogReady with the catalog parsed from the cache.
C10_FreshCacheNoNetwork ==
    ( /\ catRuns > 0
      /\ ~force_refresh
      /\ cache0.exists /\ cache0.readable
      /\ cache0.age < 24
      /\ cache0.content.json /\ ~FromDictRaises(cache0.content.value) ) =>
        /\ catpc = "done"
        /\ netCalls = 0
        /\ catSignals = <<CatalogReady(FromDict(cache0.content.value))>>
        /\ cacheFile.content = cache0.content

C10_Witness ==
    /\ catRuns > 0
    /\ ~force_refresh
    /\ cache0.exists /\ cache0.readable
    /\ cache0.age = 23
    /\ cache0.content = JsonDump(CatalogDoc(<<Entry("en_US", <<Entry("ryan",
            <<Entry("medium", PlainDescriptor), Entry("high", PlainDescriptor)>>)>>)>>))
    /\ catpc = "done"
    /\ netCalls = 0
    /\ Len(catSignals[1].catalog.voices) = 2
    /\ catSignals[1].catalog.voices[1].quality = "medium"

\* C11: when force_refresh is true, or the cache file is missing, or its age is
\* 24 hours or more, the run performs exactly one network retrieval; when the
\* retrieval gives a catalog document, the cache file holds that payload and
\* catalogReady carries the catalog parsed from it.
C11_StaleOrForcedFetchesOnce ==
    ( /\ catRuns > 0
      /\ force_refresh \/ ~cache0.exists \/ cache0.age >= 24 ) =>
        /\ catpc = "fetching" => netCalls = 0
        /\ catpc = "done" =>
             /\ netCalls = 1
             /\ response.asked
             /\ (response.ok /\ ~FromDictRaises(response.data)) =>
                  /\ cacheFile.exists
                  /\ cacheFile.content = [json |-> TRUE, value |-> response.data]
                  /\ catSignals = <<[sig |-> "catalogReady",
                                     catalog |-> FromDict(response.data),
                                     text |-> ""]>>

C11_Witness ==
    /\ catRuns > 0
    /\ catpc = "done"
    /\ force_refresh
    /\ cache0.exists /\ cache0.readable /\ cache0.age = 0
    /\ cache0.content.json /\ cache0.content.value.mapping
    /\ netCalls = 1
    /\ response.ok
    /\ Len(LeavesOf(response.data.items)) = 2
    /\ response.data # cache0.content.value
    /\ cacheFile.content = [json |-> TRUE, value |-> response.data]
    /\ catSignals[1].sig = "catalogReady"
    /\ Len(catSignals[1].catalog.voices) = 2

\* C12: when force_refresh is false and the cache file is fresh but cannot be
\* read, is not JSON, or is JSON that is not a catalog mapping, the run falls
\* back to one network fetch, and an error it emits comes from that fetch.
C12_CacheFailureFallsBack ==
    ( /\ catRuns > 0
      /\ catpc = "done"
      /\ ~force_refresh
      /\ cache0.exists /\ cache0.age < 24
      /\ \/ ~cache0.readable
         \/ ~cache0.content.json
         \/ FromDictRaises(cache0.content.value) ) =>
        /\ netCalls = 1
        /\ response.asked
        /\ catSignals[1].sig = "error" =>
              ~response.ok \/ FromDictRaises(response.data)

\* C13: a finished run has emitted exactly one notification, catalogReady or
\* error; when its network retrieval failed that notification is the error
\* carrying the failure's text; a run still fetching has emitted nothing.
C13_OneOutcomePerRun ==
    /\ catpc = "fetching" => catSignals = <<>>
    /\ (catRuns > 0 /\ catpc = "done") =>
         /\ Len(catSignals) = 1
         /\ catSignals[1].sig \in {"catalogReady", "error"}
         /\ (response.asked /\ ~response.ok) =>
              catSignals = <<[sig |-> "error", catalog |-> [voices |-> <<>>],
                              text |-> response.text]>>

C13_Witness ==
    /\ catRuns > 0
    /\ catpc = "done"
    /\ cache0.exists /\ cache0.age = 25
    /\ netCalls = 1
    /\ response.asked /\ ~response.ok
    /\ response.text = "HTTPError"
    /\ Len(catSignals) = 1
    /\ catSignals[1].sig = "error"
    /\ catSignals[1].text = "HTTPError"

(***************************************************************************)
(* Properties of VoiceCatalog.from_dict                                    *)
(***************************************************************************)
RECURSIVE SumOf(_)
SumOf(ns) == IF ns = <<>> THEN 0 ELSE Head(ns) + SumOf(Tail(ns))

\* the number of leaf values of a three-level mapping
NumLeaves(items) ==
    SumOf([l \in 1..Len(items) |->
              SumOf([s \in 1..Len(items[l].v) |-> Len(items[l].v[s].v)])])

\* every leaf of the document is a mapping
WellFormed(doc) ==
    /\ doc.mapping
    /\ \A l \in 1..Len(doc.items) : \A s \in 1..Len(doc.items[l].v) :
          \A q \in 1..Len(doc.items[l].v[s].v) : doc.items[l].v[s].v[q].v.mapping

\* where the document has the language of a record, and the quality under it
LanguageIndex(v) ==
    CHOOSE l \in 1..Len(document.items) : document.items[l].k = v.language

QualityIndex(v) ==
    LET qualities == document.items[LanguageIndex(v)].v[1].v
    IN CHOOSE q \in 1..Len(qualities) : qualities[q].k = v.quality

OwnFileSize(files, ext) ==
    IF \E p \in files : p[1] = ext
    THEN LET p == CHOOSE p \in files : p[1] = ext
         IN IF p[2].has_size THEN p[2].size_bytes ELSE 0
    ELSE 0

\* C15: every record from_dict builds has size_bytes equal to the sum of
\* size_bytes over the entries of its own files mapping.
C15_SizeIsSumOfOwnFiles ==
    voiceCatalog.state = "parsed" =>
        \A i \in 1..Len(voiceCatalog.voices) :
            voiceCatalog.voices[i].size_bytes =
                OwnFileSize(voiceCatalog.voices[i].files, ".onnx")
                + OwnFileSize(voiceCatalog.voices[i].files, ".onnx.json")

\* C16: a parsed catalog holds no two records with the same key, and
\* get_by_key of a record's key returns the last-parsed leaf with that key.
C16_KeysUnique ==
    voiceCatalog.state = "parsed" =>
        /\ \A i, j \in 1..Len(voiceCatalog.voices) :
              i # j => voiceCatalog.voices[i].key # voiceCatalog.voices[j].key
        /\ \A i \in 1..Len(LeavesOf(document.items)) :
              LET key == VoiceOfLeaf(LeavesOf(document.items)[i]).key
                  last == CHOOSE n \in 1..Len(LeavesOf(document.items)) :
                            /\ VoiceOfLeaf(LeavesOf(document.items)[n]).key = key
                            /\ \A m \in (n + 1)..Len(LeavesOf(document.items)) :
                                  VoiceOfLeaf(LeavesOf(document.items)[m]).key # key
              IN GetByKey(voiceCatalog.voices, key)
                   = <<VoiceOfLeaf(LeavesOf(document.items)[last])>>

\* C20: from_dict returns a catalog whatever a leaf is: one record per leaf,
\* and a leaf without files gives a record with size_bytes 0 and empty files.
C20_ParsingIsEntryLocal ==
    (voiceCatalog.state # "none" /\ document.mapping) =>
        /\ voiceCatalog.state = "parsed"
        /\ Len(voiceCatalog.voices) = NumLeaves(document.items)
        /\ \A i \in 1..Len(voiceCatalog.voices) :
              ~LeavesOf(document.items)[i].voice_data.files.present =>
                  /\ voiceCatalog.voices[i].size_bytes = 0
                  /\ voiceCatalog.voices[i].files = {}

(***************************************************************************)
(* Properties of VoiceCatalog.filter and update_installed_status           *)
(***************************************************************************)

\* C17: filter returns exactly the records that satisfy every criterion given,
\* in catalog order (the empty list when none does), and the call leaves the
\* catalog as it was.
C17_FilterIsConjunction ==
    /\ [](query.op = "filter" =>
            LET Sat(v) == /\ query.language = <<>> \/ v.language = query.language[1]
                          /\ query.quality = <<>> \/ v.quality = query.quality[1]
                          /\ query.installed = <<>> \/ v.installed = query.installed[1]
            IN query.result = SelectSeq(voiceCatalog.voices, Sat))
    /\ [][(query'.op = "filter" /\ query' # query) => voiceCatalog' = voiceCatalog]_vars

C17_Witness ==
    /\ query.op = "filter"
    /\ query.language = <<"en_US">>
    /\ query.quality = <<>>
    /\ query.installed = <<TRUE>>
    /\ Len(voiceCatalog.voices) = 2
    /\ voiceCatalog.voices[1].language = "en_US"
    /\ voiceCatalog.voices[2].language = "en_US"
    /\ ~voiceCatalog.voices[1].installed
    /\ query.result = <<voiceCatalog.voices[2]>>

\* C18: after update_installed_status every record is installed iff a file
\* exists at {language}/{key}/{key}.onnx under the voices directory; a second
\* call with the directory unchanged changes nothing; and a call changes no
\* field of a record other than installed.
C18_InstalledIffModelFile ==
    /\ [](query.op = "update_installed_status" =>
            \A i \in 1..Len(voiceCatalog.voices) :
                LET v == voiceCatalog.voices[i]
                IN v.installed <=> <<v.language, v.key, v.key, ".onnx">> \in voices_dir)
    /\ [][ /\ (query.op = "update_installed_status"
                 /\ query'.op = "update_installed_status") =>
                    voiceCatalog' = voiceCatalog
           /\ voiceCatalog.state = "parsed" =>
                 /\ voiceCatalog'.state = "parsed"
                 /\ Len(voiceCatalog'.voices) = Len(voiceCatalog.voices)
                 /\ \A i \in 1..Len(voiceCatalog.voices) :
                       [voiceCatalog'.voices[i] EXCEPT !.installed = FALSE]
                         = [voiceCatalog.voices[i] EXCEPT !.installed = FALSE] ]_vars

C18_Witness ==
    /\ query.op = "update_installed_status"
    /\ Len(voiceCatalog.voices) = 2
    /\ voiceCatalog.voices[1].installed
    /\ ~voiceCatalog.voices[2].installed
    /\ VoicePath(voiceCatalog.voices[1]) \in voices_dir
    /\ VoicePath(voiceCatalog.voices[2]) \notin voices_dir

\* C19: a record's installed flag is false when from_dict builds it, whatever
\* the descriptor says, and turns true only in an update_installed_status
\* call that finds the record's model file in the voices directory.
C19_InstalledOnlyFromDisk ==
    [][ \A i \in 1..Len(voiceCatalog'.voices) :
          ( /\ voiceCatalog'.voices[i].installed
            /\ ~(voiceCatalog.state = "parsed" /\ voiceCatalog.voices[i].installed) ) =>
              /\ voiceCatalog.state = "parsed"
              /\ query'.op = "update_installed_status"
              /\ LET v == voiceCatalog'.voices[i]
                 IN <<v.language, v.key, v.key, ".onnx">> \in voices_dir ]_vars

C19_Witness ==
    /\ voiceCatalog.state = "parsed"
    /\ query.op = "none"
    /\ voices_dir = {}
    /\ Len(voiceCatalog.voices) = 2
    /\ LeavesOf(document.items)[1].voice_data.installed
    /\ ~LeavesOf(document.items)[2].voice_data.installed
    /\ ~voiceCatalog.voices[1].installed
    /\ ~voiceCatalog.voices[2].installed

(***************************************************************************)
(* Properties of the command line, the output handling and the window      *)
(***************************************************************************)
IsRandomArg(a) == a[1] \in {"--random", "--random="}

IsLengthScaleArg(a) == a[1] = "--length_scale="

\* C21: the arguments the converter was started with contain a random-mode
\* argument iff the job's random_voice is set, and that argument encodes the
\* job's random_filter when there is one and is the plain flag otherwise; they
\* contain a length-scale argument iff the job's length_scale is not 1.0, and
\* that argument carries the job's length_scale.
C21_OptionsFollowJob ==
    launch.started =>
        LET args == launch.arguments
            randoms == {i \in DOMAIN args : IsRandomArg(args[i])}
            scales == {i \in DOMAIN args : IsLengthScaleArg(args[i])}
        IN /\ (randoms # {}) <=> cjob.random_voice
           /\ \A i \in randoms :
                 args[i] = IF cjob.random_filter # None
                           THEN <<"--random=", cjob.random_filter[1]>>
                           ELSE <<"--random">>
           /\ (scales # {}) <=> (cjob.length_scale # 1000)
           /\ \A i \in scales :
                 args[i] = <<"--length_scale=">> \o FloatStr(cjob.length_scale)

C21_Witness ==
    /\ launch.started
    /\ cjob.random_voice
    /\ cjob.random_filter = <<"medium">>
    /\ cjob.length_scale = 500
    /\ launch.arguments[1] = <<"--random=", "medium">>
    /\ launch.arguments[2] = <<"--length_scale=", "0", ".", "5">>

\* C22: in the arguments the converter was started with, the job's files are
\* the trailing arguments, once each and in the order of job.files, every
\* argument before them is an option, and no argument contains the job's
\* voice_key.
C22_FilesTrailInOrder ==
    launch.started =>
        LET args == launch.arguments
            n == Len(cjob.files)
            k == Len(args)
        IN /\ k >= n
           /\ \A i \in 1..n : args[k - n + i] = <<cjob.files[i]>>
           /\ \A i \in 1..(k - n) : IsRandomArg(args[i]) \/ IsLengthScaleArg(args[i])
           /\ \A i \in 1..n :
                 Cardinality({m \in DOMAIN args : args[m] = <<cjob.files[i]>>}) = 1
           /\ cjob.voice_key # None =>
                 \A i \in DOMAIN args : \A c \in DOMAIN args[i] :
                     args[i][c] # cjob.voice_key[1]

C22_Witness ==
    /\ launch.started
    /\ cjob.voice_key = <<"en_US-ryan-high">>
    /\ cjob.files = <<"notes.txt", "book.epub">>
    /\ launch.arguments =
          << <<"--length_scale=", "2", ".", "0">>, <<"notes.txt">>, <<"book.epub">> >>

\* C23: when the converter has been started for a job that is not random and
\* has a voice_key, the voice key is among what the process was given besides
\* its arguments: in its environment or on its standard input.
C23_VoiceKeyConveyed ==
    (launch.started /\ ~cjob.random_voice /\ cjob.voice_key # None) =>
        \/ \E e \in launch.environment : e[2] = cjob.voice_key[1]
        \/ \E i \in DOMAIN launch.stdin : launch.stdin[i] = cjob.voice_key[1]

\* C24: once everything the process wrote has been read and its output ends
\* at a line break, the log holds exactly the lines the process wrote, each
\* once, verbatim and in the order written.
C24_EveryLineLoggedOnce ==
    (pipe = <<>> /\ (written = <<>> \/ written[Len(written)] = Newline)) =>
        log = SplitLines(written)

\* C25: the per-file estimate is always a multiple of 5 in 0..95; a line that
\* matches the byte-transfer pattern emits (current file, min(estimate + 5, 95))
\* and leaves the estimate at that value unless the same line is also a
\* 'Processing file' line that resets it; the estimate rises only that way
\* and falls only to 0 on a 'Processing file' line.
C25_EstimateStepsByFive ==
    /\ [](current_file_progress \in {5 * k : k \in 0..19})
    /\ [][ LET estimate == MinOf(current_file_progress + 5, 95)
           IN /\ (qprocess.state = "running" /\ PvMatch(lastLine')) =>
                    /\ emitted' # <<>>
                    /\ emitted'[1] = Emit(current_file[1], estimate, "file")
                    /\ \/ current_file_progress' = estimate
                       \/ HasFileMatch(lastLine') /\ current_file_progress' = 0
              /\ current_file_progress' > current_file_progress =>
                    PvMatch(lastLine') /\ current_file_progress' = estimate
              /\ current_file_progress' < current_file_progress =>
                    HasFileMatch(lastLine') /\ current_file_progress' = 0 ]_vars

C25_Witness ==
    /\ qprocess.state = "running"
    /\ lastLine = <<PvText>>
    /\ current_file_progress = 95
    /\ emitted = <<Emit(current_file[1], 95, "file")>>

\* C26: after a line 'Processing file N of M' with N one of the job's files
\* and M positive was parsed, the worker's current file is the N-th file, its
\* estimate is 0, the last emission is (N-th file, floor((N-1)/M*100)), and the
\* job's current file (get_current_file) is that same file.
C26_FileLineSwitchesCurrentFile ==
    (HasFileMatch(lastLine)
       /\ FileMatch(lastLine)[2] \in 1..Len(cjob.files)
       /\ FileMatch(lastLine)[4] >= 1) =>
        LET n == FileMatch(lastLine)[2]
            m == FileMatch(lastLine)[4]
        IN /\ current_file = <<cjob.files[n]>>
           /\ current_file_progress = 0
           /\ emitted # <<>>
           /\ emitted[Len(emitted)] =
                 Emit(cjob.files[n], ((n - 1) * 100) \div m, "overall")
           /\ GetCurrentFile(cjob) = <<cjob.files[n]>>

\* C27: an overall-progress value is never smaller than the overall-progress
\* value emitted before it in the same run.
C27_OverallNeverDecreases ==
    [][(lastOverall # <<>> /\ lastOverall' # <<>>) =>
          lastOverall'[1] >= lastOverall[1]]_vars

\* C28: every CatalogWorker.run and DownloadWorker.run entered from the main
\* window executes on a thread other than the UI thread.
C28_NoWorkerRunOnUiThread ==
    \A w \in workerRuns : w.thread # "ui"

\* C29: the voices of a download request are reported to _on_voice_downloaded
\* one by one in the order requested, one notification per voice whatever the
\* outcome of the voices before it, and when the handler has returned every
\* requested voice has been run and reported.
C29_EveryRequestedVoiceReported ==
    /\ Len(notified) <= Len(requested)
    /\ \A i \in 1..Len(notified) : notified[i].voice = requested[i].key
    /\ ui = "_on_download_voices" => Len(notified) = reqIdx - 1
    /\ ui # "_on_download_voices" => Len(notified) = Len(requested)

C29_Witness ==
    /\ ui = "dialog"
    /\ Len(requested) = 2
    /\ Len(notified) = 2
    /\ ~notified[1].success
    /\ notified[2].success

\* C30: every file path a run opens, writes, renames, unlinks or reads is
\* below {language}/{key}/ of its own voice, so two runs for voices with
\* different keys have no touched path in common.
C30_RunStaysInItsVoiceDirectory ==
    /\ \A r \in Runs : \A p \in installs[r].touched :
          /\ Len(p) = 3
          /\ p[1] = installs[r].voice.language
          /\ p[2] = installs[r].voice.key
    /\ \A r1, r2 \in Runs :
          installs[r1].voice.key # installs[r2].voice.key =>
              installs[r1].touched \cap installs[r2].touched = {}

C30_Witness ==
    /\ installs[1].pc = "done"
    /\ installs[2].pc = "done"
    /\ installs[1].voice = RyanHigh
    /\ installs[2].voice = AmyLow
    /\ installs[1].cancelled
    /\ installs[1].finished = <<FALSE>>
    /\ installs[1].touched = {temp_path(target_path(RyanHigh, ".onnx"))}
    /\ installs[2].finished = <<TRUE>>
    /\ installs[2].touched =
          {<<"en_US", "en_US-amy-low", <<"en_US-amy-low", ext>>>> : ext \in {".onnx", ".onnx.json"}}
          \cup {<<"en_US", "en_US-amy-low", <<"en_US-amy-low", ext, ".tmp">>>> :
                   ext \in {".onnx", ".onnx.json"}}

(***************************************************************************)
(* Properties of the speed preference and the configuration file           *)
(***************************************************************************)
\* |a - b|
Distance(a, b) == IF a >= b THEN a - b ELSE b - a

\* C31: for the speed s shown by the panel, get_length_scale() is 1/s to three
\* decimals (no thousandth is closer to 1/s), and exactly 0.5 for speed 2.0,
\* 2.0 for speed 0.5 and 1.0 for speed 1.0.
C31_LengthScaleIsReciprocal ==
    LET s == GetSpeed(settings)
        ls == GetLengthScale(settings)
    IN /\ 2 * Distance(ls * s, 10000) <= s
       /\ s = 20 => ls = 500
       /\ s = 5 => ls = 2000
       /\ s = 10 => ls = 1000

C31_Witness ==
    /\ session = "open"
    /\ GetSpeed(settings) = 7
    /\ GetLengthScale(settings) = 1429

\* C32: when the application is launched on the configuration file its last
\* closeEvent saved, the settings panel shows the speed it showed at that
\* close.
C32_SpeedRoundTrips ==
    [][(session = "closed" /\ session' = "open" /\ closedSpeed # None)
          => GetSpeed(settings') = closedSpeed[1]]_vars

C34_LengthScalePositive ==
    cjob # NoJob => cjob.length_scale > 0

C34_Witness ==
    /\ cjob # NoJob
    /\ settings.speed_slider = 1
    /\ cjob.length_scale = 10000

(***************************************************************************)
(* Further properties of the download, conversion, progress and catalog    *)
(* models                                                                  *)
(***************************************************************************)
\* the run has ended with finished(True)
EndedTrue == dlpc = "done" /\ signals # <<>> /\ LastSignal = Finished(TRUE)

\* C35: a file that declares no digest is never checksum-verified and does not
\* stop the run: a run that ends with finished(True) without having seen a
\* cancellation has installed it, while every file of the voice that declares
\* a digest was verified and holds bytes matching that digest.
C35_NoDigestSkipsVerificationOnly ==
    /\ \A e \in VoiceExts : DeclaredDigest(e) = NoDigest => checked[e] = "unchecked"
    /\ EndedTrue =>
          \A e \in VoiceExts :
              DeclaredDigest(e) # NoDigest =>
                  /\ checked[e] = "match"
                  /\ disk[TargetPath(e)].exists
                  /\ Md5(disk[TargetPath(e)].data) = DeclaredDigest(e)
    /\ (EndedTrue /\ cancelSeen = NotSeen) =>
          \A e \in VoiceExts :
              DeclaredDigest(e) = NoDigest =>
                  sent[e].requested /\ disk[TargetPath(e)] = File(sent[e].body)

C35_Witness ==
    /\ EndedTrue
    /\ cancelSeen = NotSeen
    /\ Len(voice.files) = 2
    /\ voice.files[1].md5_digest = NoDigest
    /\ voice.files[2].md5_digest # NoDigest
    /\ checked[voice.files[1].ext] = "unchecked"
    /\ checked[voice.files[2].ext] = "match"
    /\ disk[TargetPath(voice.files[1].ext)] = File(sent[voice.files[1].ext].body)
    /\ disk[TargetPath(voice.files[1].ext)] # disk0[TargetPath(voice.files[1].ext)]

\* C36: a job has an error_message only while its status is failed.
C36_ErrorMessageOnlyWhenFailed ==
    \A w \in Workers :
        job[w].error_message # NoMessage => job[w].status = "failed"

\* C37: a run emits at most one finished notification and nothing after it, a
\* run that has ended has emitted it; finished(True) is emitted only when every
\* declared file was requested, sits under its final name with the complete
\* body streamed in this run, and matches its digest when it declares one; an
\* error notification is directly followed by finished(False).
C37_OneFinishedAndTrueMeansInstalled ==
    /\ \A i \in 1..Len(signals) : signals[i].sig = "finished" => i = Len(signals)
    /\ dlpc = "done" => (signals # <<>> /\ LastSignal.sig = "finished")
    /\ (signals # <<>> /\ LastSignal = Finished(TRUE)) =>
          \A e \in VoiceExts :
              /\ sent[e].requested
              /\ disk[TargetPath(e)] = File(sent[e].body)
              /\ DeclaredDigest(e) # NoDigest => Md5(sent[e].body) = DeclaredDigest(e)
    /\ \A i \in 1..Len(signals) :
          signals[i].sig = "error" =>
              (i < Len(signals) /\ signals[i + 1] = Finished(FALSE))

\* C38: from _start_conversion until the finished notification of the
\* conversion is handled (while MainWindow._conversion_thread is set), the
\* Convert button is disabled, so that no second worker can be started.
C38_ConvertDisabledWhileRunning ==
    conversion_thread # 0 => ~convertEnabled

\* C39: no call of _parse_progress_output raises, and every progress value a
\* call emits is in 0..100 and comes with a file of the job.
C39_ParserTotalAndInRange ==
    /\ fault = "none"
    /\ \A i \in 1..Len(emitted) :
          /\ emitted[i].percent \in 0..100
          /\ \E k \in 1..Len(cjob.files) : emitted[i].filename = cjob.files[k]

\* C40: whenever a run writes the cache file, the content written parses into
\* a catalog.
C40_CacheHoldsCatalog ==
    [][cacheFile'.content # cacheFile.content =>
          /\ cacheFile'.content.json
          /\ ~FromDictRaises(cacheFile'.content.value)]_vars

====
